---- MODULE Spec2Model ----
(***************************************************************************)
(* Infinite Messaging Tree: the placement engine (utils/hash.js), the      *)
(* message store (utils/storage.js), the Composer's submission path and    *)
(* the NodeSystem (scene/Nodes.js) as one state machine.                   *)
(*                                                                         *)
(* Strings are sequences of UTF-16 code units (naturals).  Real numbers    *)
(* are fixed-point integers in thousandths ("milli").  Times are in ms.    *)
(***************************************************************************)
EXTENDS Integers, Sequences, FiniteSets, TLC

VARIABLES
  randS,            \* hash.js: the closure variable s of the latest seededRandom generator
  lastCall,         \* the latest placement call: its function, arguments and result
  heldCall,         \* an earlier placement call kept for comparison
  blob,             \* localStorage[STORAGE_KEY]: the text stored under the messages key
  storageDenied,    \* the browser refuses every access to localStorage (it throws)
  tzHours,          \* the browser's time zone, hours east of UTC
  now,              \* the clock, ms since the start of the explored window
  accepted,         \* the messages whose save returned true, in order, since the store was last empty
  startedValid,     \* the store was absent or a valid message array when accepted was last empty
  lastSave,         \* the latest saveMessage call: its argument, the blob before it and its outcome
  meshes,           \* NodeSystem.meshes: message id -> mesh (with its userData, scale, position)
  nodes,            \* NodeSystem.nodes: message id -> node data
  scene,            \* the scene's children, in the order they were added
  created,          \* how many geometries, materials and lights were constructed
  frames,           \* the callbacks handed to requestAnimationFrame and not run yet
  nextObj,          \* the identity of the next object constructed
  seenIds,          \* the message ids handed to addNode so far
  lastAdd,          \* the latest addNode call: whether the id existed, the state before and after
  hoveredNode,      \* NodeSystem.hoveredNode: the mesh under the pointer, 0 for null
  hoverTimeout,     \* NodeSystem.hoverTimeout: the id of the latest hover timer, 0 for null
  timers,           \* the timers set with setTimeout and neither run nor cleared
  nextTimer,        \* the id setTimeout returns next
  hoverLabel,       \* the #hover-label element: hidden or not, its text and its place
  pointer,          \* what the pointer is on, since when, and the reveals since then
  lastReveal,       \* the latest onNodeHover(message, x, y) call and what the pointer was on
  lastCancel,       \* the latest hover timer cleared before it ran
  nameInput,        \* the value of #composer-name
  messageTextarea,  \* the value of #composer-message
  submitButton,     \* #composer-submit: its text and its background
  errorStyle,       \* the elements that carry the error border and the shake animation
  submits,          \* the handleSubmit calls so far
  lastSubmit,       \* the latest handleSubmit call: its inputs, its outcome and its message
  searchInput,      \* #search-input: its value, border colour and placeholder
  isAnimating,      \* Search.isAnimating
  lightBeam,        \* Search.lightBeam: the beam mesh and its opacity, obj 0 for null
  camera,           \* camera.position and controls.target
  disposed,         \* the objects whose geometry and material were disposed
  searches,         \* the handleSearch and highlightNode calls so far
  lastFly,          \* the latest flyToPosition call: whether one was in flight, before and after
  lastSearch,       \* the latest handleSearch call: its outcome, the state before and after
  lastHighlight,    \* the latest highlightNode call: its result, the state before and after
  modal,            \* the message modal: hidden, or the message it shows
  lastClick,        \* the latest onMouseClick: the onNodeClick calls it made, before and after
  onNodeClick,      \* NodeSystem.onNodeClick: whether the app's callback is registered
  lastTier,         \* the latest calculateTier call: its count and its result
  heldTier,         \* an earlier calculateTier call kept for comparison
  lastProgress,     \* the latest getProgressToNextTier call: the count it read and its result
  lastHash,         \* the latest hashCode call made on its own: the string and the result
  settingsBlob,     \* localStorage: the text under the settings key
  lastClear,        \* the latest clearAllMessages call: the two texts before and after
  nodeTime,         \* NodeSystem.time: the sum of the deltaTime of all updates, ms
  lastUpdate,       \* the latest NodeSystem.update call: the meshes it left
  weather,          \* WeatherSystem: currentWeather, the effects, the fog and the pending animate() loops
  weatherUI,        \* WeatherUI: whether it is built, currentWeather, the toggle, autoWeatherInterval
  intervals,        \* the intervals set with setInterval and not cleared
  nextInterval,     \* the id setInterval returns next
  lastWeatherEvent  \* the latest call or event of the weather controls, and how many there were

placeVars == <<randS, lastCall, heldCall>>
storeVars == <<blob, storageDenied, tzHours, accepted, startedValid, lastSave,
               settingsBlob, lastClear>>
nodeVars == <<meshes, nodes, scene, created, frames, nextObj, seenIds, lastAdd>>
hoverVars == <<hoveredNode, hoverTimeout, timers, nextTimer, hoverLabel, pointer,
               lastReveal, lastCancel>>
composerVars == <<nameInput, messageTextarea, submitButton, errorStyle, submits, lastSubmit>>
searchVars == <<searchInput, isAnimating, lightBeam, camera, disposed, searches, lastFly,
                lastSearch, lastHighlight>>
modalVars == <<modal, lastClick, onNodeClick>>
tierVars == <<lastTier, heldTier, lastProgress>>
hashVars == <<lastHash>>
swayVars == <<nodeTime, lastUpdate>>
weatherVars == <<weather, weatherUI, intervals, nextInterval, lastWeatherEvent>>

None == "none"

(***************************************************************************)
(* Bounds of the explored inputs.                                          *)
(***************************************************************************)
MaxNames == 2       \* user names "A", "B", ...
MaxIdChars == 4     \* one-character message ids "0", "1", ... of the placement calls
MaxStoreIds == 2    \* message ids of the messages handed to saveMessage directly
MaxStore == 2       \* stored messages
MaxLoad == 2        \* messages in one loadNodes call
SwayHorizon == 2000 \* the highest NodeSystem.time explored, ms
BirthStep == 120    \* the longest time between two frames of a birth animation, ms
BirthHorizon == 1440 \* the end of the explored time of the birth animations, ms
MaxTime == 1200     \* the end of the explored time, ms
FrameStep == 600    \* the longest time between two looks at the clock, ms
HoverHorizon == 625 \* the end of the explored time while hovering, ms
HoverStep == 125    \* the longest time between two pointer events, ms
MaxTimers == 4      \* timers set in one run
MaxClock == 1       \* the end of the explored time while composing, ms
MaxSubmits == 2     \* handleSubmit calls in one run
ClickHorizon == 375 \* the end of the explored time while clicking, ms
MaxClickTimers == 2 \* hover timers set while clicking
MaxPulses == 2      \* highlightNode calls in one run
PulseGap == 47      \* a highlightNode call comes when the live rings have run a multiple of this many frames
MaxSearches == 2    \* handleSearch calls in one run
SearchHorizon == 2400 \* the end of the explored time while searching, ms
SearchStep == 800   \* the longest time between two frames while searching, ms

(***************************************************************************)
(* utils/hash.js: hashCode                                                 *)
(***************************************************************************)
Half == 65536

\* A JS number that holds an integer of 0 .. 2^32 - 1, as two 16-bit halves
\* (its value is hi * 65536 + lo); 2^31 and above do not fit a TLC integer.
U32(hi, lo) == [hi |-> hi, lo |-> lo]

U32Mod(v, m) == (((v.hi % m) * (Half % m)) + v.lo) % m

\* One round of the loop: hash = ((hash << 5) - hash) + char; hash = hash & hash.
\* hash is a signed 32-bit integer; 31 * hash + char is computed on the halves
\* and wrapped to 32 bits two's complement.
hashStep(hash, char) ==
  LET lo == hash % Half
      hi == (hash \div Half) % Half
      lo31 == (31 * lo) + char
      hi31 == ((31 * hi) + (lo31 \div Half)) % Half
      nlo == lo31 % Half
  IN IF hi31 >= 32768 THEN ((hi31 - Half) * Half) + nlo ELSE (hi31 * Half) + nlo

RECURSIVE hashLoop(_, _, _)
hashLoop(str, i, hash) ==
  IF i > Len(str) THEN hash ELSE hashLoop(str, i + 1, hashStep(hash, str[i]))

\* return Math.abs(hash), without the Math.abs: the bits of hash as a number
mathAbsSkipped(h) == U32((h \div Half) % Half, h % Half)

\* Math.abs of a signed 32-bit integer, as a JS number (2^31 for -2^31).
mathAbs(h) ==
  IF h >= 0 THEN U32(h \div Half, h % Half)
  ELSE IF h % Half = 0 THEN U32(0 - (h \div Half), 0)
  ELSE U32((0 - (h \div Half)) - 1, Half - (h % Half))

hashCode(str) == mathAbs(hashLoop(str, 1, 0))

NoHash == [called |-> FALSE, str |-> <<>>, result |-> U32(0, 0)]

HashInit == lastHash = NoHash

\* The strings hashed: every string of up to MaxHashLen of a few code units
\* (a digit, two letters, the highest code unit) and every prefix of two
\* longer texts, "GydZG_" and "polygenelubricants".
MaxHashLen == 3
HashAlphabet == {48, 65, 97, 65535}
HashTexts ==
  {<<71, 121, 100, 90, 71, 95>>,
   <<112, 111, 108, 121, 103, 101, 110, 101, 108, 117, 98, 114, 105, 99, 97, 110, 116, 115>>}
HashInputs ==
  UNION {[1..n -> HashAlphabet] : n \in 0..MaxHashLen}
    \cup UNION {{SubSeq(t, 1, n) : n \in 0..Len(t)} : t \in HashTexts}

HashCode(str) ==
  /\ str \in HashInputs
  /\ lastHash' = [called |-> TRUE, str |-> str, result |-> hashCode(str)]
  /\ UNCHANGED <<randS, lastCall, heldCall, storeVars, nodeVars, hoverVars, composerVars>>
  /\ UNCHANGED <<searchVars, modalVars, tierVars, swayVars, weatherVars, now>>

(***************************************************************************)
(* utils/hash.js: seededRandom.  Math.sin has no exact integer form; the   *)
(* generator is kept as what the code makes it, a closure variable s that  *)
(* starts at the seed and that every draw replaces by a fixed function of  *)
(* its old value, the draw being the fractional part of the new value.     *)
(* s lives on a grid of RandModulus values and a draw is in thousandths.   *)
(***************************************************************************)
RandModulus == 10007
RandFactor == 9999

\* let s = seed (the mutant: one generator shared by all calls, reseeded by adding)
seededRandomShared(seed) == (randS + U32Mod(seed, RandModulus)) % RandModulus
seededRandom(seed) == U32Mod(seed, RandModulus)

\* s = Math.sin(s * 9999) * 10000
randNext(s) == (s * RandFactor) % RandModulus

\* return s - Math.floor(s), in thousandths: 0 .. 999
randValue(s) == s % 1000

(***************************************************************************)
(* utils/hash.js: getMessagePlacement, getPositionForTreePart              *)
(***************************************************************************)
TREE_PARTS == <<"trunk", "branch", "leaf", "root">>

TwoPiMilli == 6283

\* (seed * rate) % (Math.PI * 2), in milliradians, rate in thousandths
angleOf(seed, rateMilli) == (U32Mod(seed, TwoPiMilli) * rateMilli) % TwoPiMilli

\* A horizontal coordinate r * sin(phi) * fn(angle), kept as its arguments:
\* fn is "cos" (x) or "sin" (z), cosPhi is cos(phi) in thousandths.
Coord(fn, angle, r, cosPhi) == [fn |-> fn, angle |-> angle, r |-> r, cosPhi |-> cosPhi]

\* The position and the generator state after the draws of one tree part.
getPositionForTreePart(treePart, rand, seed) ==
  LET s1 == randNext(rand)
      s2 == randNext(s1)
      r1 == randValue(s1)
      r2 == randValue(s2)
  IN CASE treePart = "trunk" ->
            LET angle == angleOf(seed, 618)
                height == 1000 + (r1 * 6)
                radius == 1200 - ((height * 3) \div 80)
            IN [position |-> [x |-> Coord("cos", angle, radius, 0), y |-> height,
                              z |-> Coord("sin", angle, radius, 0)],
                rand |-> s1]
       [] treePart = "branch" ->
            LET branchAngle == angleOf(seed, 718)
                branchLength == 1000 + (r1 * 3)
                height == 5000 + (r2 * 3)
            IN [position |-> [x |-> Coord("cos", branchAngle, branchLength, 0), y |-> height,
                              z |-> Coord("sin", branchAngle, branchLength, 0)],
                rand |-> s2]
       [] treePart = "leaf" ->
            LET theta == angleOf(seed, 618)
                cosPhi == 1000 - (2 * r1)
                canopyRadius == 4000 + (r2 * 2)
            IN [position |-> [x |-> Coord("cos", theta, canopyRadius, cosPhi),
                              y |-> 8000 + ((canopyRadius * cosPhi * 6) \div 10000),
                              z |-> Coord("sin", theta, canopyRadius, cosPhi)],
                rand |-> s2]
       [] treePart = "root" ->
            LET rootAngle == angleOf(seed, 818)
                rootLength == 2000 + (r1 * 2)
            IN [position |-> [x |-> Coord("cos", rootAngle, rootLength, 0),
                              y |-> (r2 \div 2) - 100,
                              z |-> Coord("sin", rootAngle, rootLength, 0)],
                rand |-> s2]
       [] OTHER ->
            [position |-> [x |-> Coord("cos", 0, 0, 0), y |-> 5000,
                           z |-> Coord("sin", 0, 0, 0)],
             rand |-> rand]

\* const partIndex = seed % TREE_PARTS.length
partIndexFromStream(seed) == (randValue(randNext(seededRandom(seed))) * 4) \div 1000
partIndexOf(seed) == U32Mod(seed, Len(TREE_PARTS))

\* One run of getMessagePlacement: the returned object and the generator's final s.
placementRun(userName, messageId) ==
  LET seed == hashCode(userName \o messageId)
      rand == seededRandom(seed)
      treePart == TREE_PARTS[partIndexOf(seed) + 1]
      at == getPositionForTreePart(treePart, rand, seed)
      s3 == randNext(at.rand)
  IN [result |-> [treePart |-> treePart, position |-> at.position,
                  glowIntensity |-> 500 + (randValue(s3) \div 2)],
      rand |-> s3]

getMessagePlacement(userName, messageId) == placementRun(userName, messageId).result

\* hash.js (inscription variant): getNodePosition is placement.position
getNodePosition(userName, messageId) == getMessagePlacement(userName, messageId).position

\* hash.js (emotion variant): getNodePosition on the canopy sphere
canopyRun(userName, messageId) ==
  LET seed == hashCode(userName \o messageId)
      rand == seededRandom(seed)
      theta == angleOf(seed, 2400)
      s1 == randNext(rand)
      s2 == randNext(s1)
      cosPhi == 1000 - (2 * randValue(s1))
      r == 3600 + ((randValue(s2) * 24) \div 10)
  IN [result |-> [x |-> Coord("cos", theta, r, cosPhi),
                  y |-> 8000 + ((r * cosPhi * 8) \div 10000),
                  z |-> Coord("sin", theta, r, cosPhi)],
      rand |-> s2]

getNodePositionCanopy(userName, messageId) == canopyRun(userName, messageId).result

(***************************************************************************)
(* Placement calls                                                         *)
(***************************************************************************)
PlaceNames == {<<64 + i>> : i \in 1..MaxNames} \cup {<<>>}
PlaceIds == {<<47 + i>> : i \in 1..MaxIdChars}

Call(fn, userName, messageId, result) ==
  [fn |-> fn, userName |-> userName, messageId |-> messageId, result |-> result]

NoCall == Call("none", <<>>, <<>>, <<>>)

\* Each call runs on a generator of its own and returns; the caller may keep
\* what it returned for a later comparison.
PlacementCall(userName, messageId) ==
  /\ lastCall' = Call("getMessagePlacement", userName, messageId,
                      placementRun(userName, messageId).result)
  /\ randS' = placementRun(userName, messageId).rand
  /\ heldCall' \in {heldCall, lastCall}
  /\ UNCHANGED <<storeVars, nodeVars, hoverVars, composerVars, now>>
  /\ UNCHANGED <<searchVars, modalVars, tierVars, hashVars, swayVars, weatherVars>>

NodePositionCall(userName, messageId) ==
  /\ lastCall' = Call("getNodePosition", userName, messageId,
                      placementRun(userName, messageId).result.position)
  /\ randS' = placementRun(userName, messageId).rand
  /\ heldCall' \in {heldCall, lastCall}
  /\ UNCHANGED <<storeVars, nodeVars, hoverVars, composerVars, now>>
  /\ UNCHANGED <<searchVars, modalVars, tierVars, hashVars, swayVars, weatherVars>>

CanopyPositionCall(userName, messageId) ==
  /\ lastCall' = Call("getNodePositionCanopy", userName, messageId,
                      canopyRun(userName, messageId).result)
  /\ randS' = canopyRun(userName, messageId).rand
  /\ heldCall' \in {heldCall, lastCall}
  /\ UNCHANGED <<storeVars, nodeVars, hoverVars, composerVars, now>>
  /\ UNCHANGED <<searchVars, modalVars, tierVars, hashVars, swayVars, weatherVars>>

(***************************************************************************)
(* Time.  The explored window of MaxClock ms lies around a New Year: the   *)
(* UTC year BaseYear ends YearEndAt ms after the window starts.  A time    *)
(* zone offset is a whole number of hours, far longer than the window.     *)
(***************************************************************************)
BaseYear == 2025
YearEndAt == 1

utcYear(t) == IF t < YearEndAt THEN BaseYear ELSE BaseYear + 1

\* new Date(t).toISOString(): the UTC year and the rest of the text, kept as
\* the ms from the New Year of the window (negative before it).
toISOString(t) == <<utcYear(t), t - YearEndAt>>

\* new Date(iso): the instant the text names; an Invalid Date for no text.
dateParse(iso) == IF Len(iso) = 2 THEN iso[2] + YearEndAt ELSE -1

\* Date.prototype.getFullYear: the year in the local time zone; 0 stands for NaN
getFullYear(t) ==
  IF t < 0 THEN 0
  ELSE IF tzHours > 0 THEN BaseYear + 1
  ELSE IF tzHours < 0 THEN BaseYear
  ELSE utcYear(t)

(***************************************************************************)
(* JSON.  A JSON text is kept as its syntax tree: t names the production,  *)
(* v holds a string's code units, a number, or an object's members in      *)
(* order (<<key, text>> pairs).                                            *)
(***************************************************************************)
JStr(str) == [t |-> "string", v |-> str]
JNum(n) == [t |-> "number", v |-> <<n>>]
JNullText == [t |-> "null", v |-> <<>>]
JObj(members) == [t |-> "object", v |-> members]

\* What localStorage.getItem can return under the messages key: nothing
\* (absent), the empty string, a text that is no JSON (invalid), the JSON texts
\* null, {} (object) and 7 (number), or a JSON array of the given elements.
Stored(kind) == [kind |-> kind, items |-> <<>>]
Absent == Stored("absent")
EmptyText == Stored("empty")
InvalidText == Stored("invalid")
ArrayText(items) == [kind |-> "array", items |-> items]

\* JS values: an object is a record, a string a sequence of code units, null
\* inside an array is JsNullElem; the value a parse returns is tagged with its
\* type (js) and carries an array's elements or a string's code units.
JsNullElem == [jsnull |-> TRUE]
JsValue(type, items) == [js |-> type, items |-> items]
EmptyArray == JsValue("array", <<>>)

\* The keys of a message, in the order the Composer's object literal gives them.
MessageKeys ==
  <<"message_id", "userName", "message", "timestamp", "treePart", "position", "glowIntensity">>

\* A message holding a BigInt under the key count: JSON.stringify throws on it.
IsUnserializable(value) == "count" \in DOMAIN value

memberText(key, value) ==
  CASE key = "position" ->
         JObj(<< <<"x", JNum(value.x)>>, <<"y", JNum(value.y)>>, <<"z", JNum(value.z)>> >>)
    [] key = "glowIntensity" -> JNum(value)
    [] OTHER -> JStr(value)

elementText(e) ==
  IF e = JsNullElem THEN JNullText
  ELSE LET keys == SelectSeq(MessageKeys, LAMBDA k : k \in DOMAIN e)
       IN JObj([i \in 1..Len(keys) |-> <<keys[i], memberText(keys[i], e[keys[i]])>>])

\* JSON.stringify(messages): the text, or threw.
stringify(messages) ==
  IF \E i \in DOMAIN messages : IsUnserializable(messages[i])
  THEN [threw |-> TRUE, text |-> InvalidText]
  ELSE [threw |-> FALSE,
        text |-> ArrayText([i \in DOMAIN messages |-> elementText(messages[i])])]

RECURSIVE parseDoc(_)
parseDoc(doc) ==
  CASE doc.t = "string" -> doc.v
    [] doc.t = "number" -> doc.v[1]
    [] doc.t = "null" -> JsNullElem
    [] doc.t = "object" ->
         [k \in {doc.v[i][1] : i \in DOMAIN doc.v} |->
            LET last == CHOOSE i \in DOMAIN doc.v :
                          /\ doc.v[i][1] = k
                          /\ \A j \in DOMAIN doc.v : j > i => doc.v[j][1] # k
            IN parseDoc(doc.v[last][2])]

\* JSON.parse(data) for a text that parses
parse(text) == JsValue(text.kind, [i \in DOMAIN text.items |-> parseDoc(text.items[i])])

(***************************************************************************)
(* utils/storage.js                                                        *)
(***************************************************************************)
Ret(value) == [threw |-> FALSE, value |-> value]
Threw(value) == [threw |-> TRUE, value |-> value]

\* getAllMessages: try { data ? JSON.parse(data) : [] } catch { [] }
getAllMessages ==
  IF storageDenied THEN EmptyArray
  ELSE IF blob.kind \in {"absent", "empty"} THEN EmptyArray
  ELSE IF blob.kind = "invalid" THEN EmptyArray
  ELSE parse(blob)

\* messages.push(message)
unshiftMessage(items, message) == <<message>> \o items
pushMessage(items, message) == Append(items, message)

\* saveMessage(message); rejected: the medium refuses this write (quota).
\* Returns what the caller sees (ok, threw) and the blob the call leaves.
saveMessageTrueOnError(message, rejected) ==
  LET messages == getAllMessages
      text == stringify(pushMessage(messages.items, message))
  IN IF messages.js = "array" /\ ~text.threw /\ ~storageDenied /\ ~rejected
     THEN [ok |-> TRUE, threw |-> FALSE, blob |-> text.text]
     ELSE [ok |-> TRUE, threw |-> FALSE, blob |-> blob]
saveMessage(message, rejected) ==
  LET messages == getAllMessages
  IN IF messages.js # "array"
     THEN [ok |-> FALSE, threw |-> FALSE, blob |-> blob]      \* push is no function: caught
     ELSE LET text == stringify(pushMessage(messages.items, message))
          IN IF text.threw
             THEN [ok |-> FALSE, threw |-> FALSE, blob |-> blob]
             ELSE IF storageDenied \/ rejected
             THEN [ok |-> FALSE, threw |-> FALSE, blob |-> blob]   \* setItem threw: caught
             ELSE [ok |-> TRUE, threw |-> FALSE, blob |-> text.text]

\* m.message_id of an array element; on null it throws
RECURSIVE findById(_, _, _)
findById(items, i, messageId) ==
  IF i > Len(items) THEN Ret(JsNullElem)
  ELSE IF items[i] = JsNullElem THEN Threw(JsNullElem)
  ELSE IF "message_id" \in DOMAIN items[i] /\ items[i].message_id = messageId
  THEN Ret(items[i])
  ELSE findById(items, i + 1, messageId)

\* getMessageById: messages.find(m => m.message_id === messageId) || null
getMessageById(messageId) ==
  LET messages == getAllMessages
  IN IF messages.js # "array" THEN Threw(JsNullElem)       \* find is no function
     ELSE findById(messages.items, 1, messageId)

\* getMessageCount: getAllMessages().length; -1 stands for undefined
getMessageCount ==
  LET messages == getAllMessages
  IN CASE messages.js = "array" -> Ret(Len(messages.items))
       [] messages.js = "null" -> Threw(-1)
       [] OTHER -> Ret(-1)

\* getMessagesForYear(year): filter on new Date(m.timestamp).getFullYear() === year
yearOfMessage(m) ==
  getFullYear(dateParse(IF "timestamp" \in DOMAIN m THEN m.timestamp ELSE <<>>))

getMessagesForYear(year) ==
  LET messages == getAllMessages
  IN IF messages.js # "array" THEN Threw(<<>>)             \* filter is no function
     ELSE IF \E i \in DOMAIN messages.items : messages.items[i] = JsNullElem
     THEN Threw(<<>>)
     ELSE Ret(SelectSeq(messages.items, LAMBDA m : yearOfMessage(m) = year))

(***************************************************************************)
(* Messages, built as Composer.handleSubmit builds them                    *)
(***************************************************************************)
Message(messageId, userName, messageText, t) ==
  LET placement == getMessagePlacement(userName, messageId)
  IN [message_id |-> messageId, userName |-> userName, message |-> messageText,
      timestamp |-> toISOString(t), treePart |-> placement.treePart,
      position |-> placement.position, glowIntensity |-> placement.glowIntensity]

UserNames == {<<64 + i>> : i \in 1..MaxNames}
StoreIds == {<<47 + i>> : i \in 1..MaxStoreIds}

\* What callers hand to saveMessage: messages, and an object JSON cannot write.
StoreMessages ==
  {Message(id, <<65>>, <<104, 105>>, 0) : id \in StoreIds}
    \cup {Message(<<48>>, <<66>>, <<104>>, 0)}
    \cup {[message_id |-> <<48>>, count |-> "bigint"]}

\* The texts the messages key can hold when the page loads.
InitialBlobs ==
  {Absent, EmptyText, InvalidText, ArrayText(<<>>), Stored("null"), Stored("object"),
   Stored("number"), ArrayText(<<JNullText>>)}

IsValidStore(b) == b \in {Absent, EmptyText, ArrayText(<<>>)}

NoSave == [called |-> FALSE, message |-> JsNullElem, before |-> Absent, after |-> Absent,
           rejected |-> FALSE, ok |-> FALSE, threw |-> FALSE]

\* The settings key: no text, or the JSON text of a settings object.
JBool(b) == [t |-> IF b THEN "true" ELSE "false", v |-> <<>>]
NoSettingsText == [kind |-> "absent", doc |-> JNullText]
SettingsText(doc) == [kind |-> "json", doc |-> doc]

\* JSON.stringify(settings) of { weather, autoWeather }
stringifySettings(settings) ==
  JObj(<< <<"weather", JStr(settings.weather)>>,
          <<"autoWeather", JBool(settings.autoWeather)>> >>)

\* JSON.parse of a settings text
parseSettings(doc) ==
  [k \in {doc.v[i][1] : i \in DOMAIN doc.v} |->
     LET member == doc.v[CHOOSE i \in DOMAIN doc.v : doc.v[i][1] = k][2]
     IN IF member.t = "string" THEN member.v ELSE member.t = "true"]

DefaultSettings == [weather |-> "clear", autoWeather |-> FALSE]

\* getSettings: try { data ? JSON.parse(data) : defaults } catch { defaults }
getSettings ==
  IF storageDenied \/ settingsBlob.kind = "absent" THEN DefaultSettings
  ELSE parseSettings(settingsBlob.doc)

\* saveSettings(settings): the text the call leaves under the settings key
saveSettings(settings) ==
  IF storageDenied THEN settingsBlob ELSE SettingsText(stringifySettings(settings))

NoClear == [called |-> FALSE, threw |-> FALSE,
            before |-> <<Absent, NoSettingsText>>, after |-> <<Absent, NoSettingsText>>]

SaveSettings(settings) ==
  /\ settingsBlob' = saveSettings(settings)
  /\ UNCHANGED <<blob, storageDenied, tzHours, accepted, startedValid, lastSave, lastClear>>
  /\ UNCHANGED <<placeVars, nodeVars, hoverVars, composerVars, now>>
  /\ UNCHANGED <<searchVars, modalVars, tierVars, hashVars, swayVars, weatherVars>>

StoreInit ==
  /\ blob \in InitialBlobs
  /\ storageDenied \in BOOLEAN
  /\ tzHours \in {-1, 0, 1}
  /\ now = 0
  /\ accepted = <<>>
  /\ startedValid = IsValidStore(blob)
  /\ lastSave = NoSave
  /\ settingsBlob = NoSettingsText
  /\ lastClear = NoClear

SaveMessage(message, rejected) ==
  /\ Len(accepted) < MaxStore \/ ~saveMessage(message, rejected).ok
  /\ blob' = saveMessage(message, rejected).blob
  /\ lastSave' = [called |-> TRUE, message |-> message, before |-> blob, after |-> blob',
                  rejected |-> rejected,
                  ok |-> saveMessage(message, rejected).ok,
                  threw |-> saveMessage(message, rejected).threw]
  /\ accepted' = IF saveMessage(message, rejected).ok THEN Append(accepted, message)
                 ELSE accepted
  /\ UNCHANGED <<storageDenied, tzHours, now, startedValid, settingsBlob, lastClear>>
  /\ UNCHANGED <<placeVars, nodeVars, hoverVars, composerVars>>
  /\ UNCHANGED <<searchVars, modalVars, tierVars, hashVars, swayVars, weatherVars>>

\* localStorage.removeItem(key) on the text b under the key
removeItemIgnored(b) == b
removeItem(b) == Absent

\* clearAllMessages: localStorage.removeItem(STORAGE_KEY), which throws when denied
ClearAllMessages ==
  /\ blob' = IF storageDenied THEN blob ELSE removeItem(blob)
  /\ accepted' = IF storageDenied THEN accepted ELSE <<>>
  /\ startedValid' = IF storageDenied THEN startedValid ELSE TRUE
  /\ UNCHANGED <<storageDenied, tzHours, now, lastSave, settingsBlob>>
  /\ lastClear' = [called |-> TRUE, threw |-> storageDenied,
                   before |-> <<blob, settingsBlob>>, after |-> <<blob', settingsBlob'>>]
  /\ UNCHANGED <<placeVars, nodeVars, hoverVars, composerVars>>
  /\ UNCHANGED <<searchVars, modalVars, tierVars, hashVars, swayVars, weatherVars>>

(***************************************************************************)
(* scene/Nodes.js: NodeSystem (inscription variant)                        *)
(***************************************************************************)
\* this.meshes.has(message_id)
hasNodeNever(ms, messageId) == FALSE
hasNode(ms, messageId) == messageId \in DOMAIN ms

\* createGeometry(treePart): the geometry class
createGeometry(treePart) ==
  CASE treePart = "trunk" -> "BoxGeometry"
    [] treePart = "branch" -> "CapsuleGeometry"
    [] treePart = "leaf" -> "SphereGeometry"
    [] treePart = "root" -> "TorusGeometry"
    [] OTHER -> "SphereGeometry"

\* { ...message, treePart: part }
withTreePart(message, part) ==
  [k \in DOMAIN message \cup {"treePart"} |-> IF k = "treePart" THEN part ELSE message[k]]

put(map, key, value) == [k \in DOMAIN map \cup {key} |-> IF k = key THEN value ELSE map[k]]

\* The NodeSystem's maps, the scene and the pending frames, as one value.
NodeState == [meshes |-> meshes, nodes |-> nodes, scene |-> scene, created |-> created,
              frames |-> frames, nextObj |-> nextObj]

BirthStartScale == 100
BirthDuration == 1200

\* addNode(message) at time t; sway holds the two Math.random() draws
\* (swayPhase in milliradians, swayAmplitude in thousandths).
addNode(st, message, sway, t) ==
  IF hasNode(st.meshes, message.message_id) THEN st
  ELSE
    LET placement == IF "position" \in DOMAIN message
                     THEN [position |-> message.position, treePart |-> message.treePart,
                           glowIntensity |-> message.glowIntensity]
                     ELSE getMessagePlacement(message.userName, message.message_id)
        part == IF "treePart" \in DOMAIN message THEN message.treePart ELSE placement.treePart
        pos == IF "position" \in DOMAIN message THEN message.position ELSE placement.position
        intensity == IF "glowIntensity" \in DOMAIN message THEN message.glowIntensity
                     ELSE placement.glowIntensity
        mesh == [obj |-> st.nextObj,
                 geometry |-> createGeometry(part),
                 glowIntensity |-> intensity,
                 position |-> pos,
                 messageId |-> message.message_id,
                 message |-> withTreePart(message, part),
                 originalPosition |-> pos,
                 swayPhase |-> sway.phase,
                 swayAmplitude |-> sway.amplitude,
                 light |-> (intensity * 3) \div 10,
                 scale |-> BirthStartScale,             \* animateBirth and its first animate()
                 swayOffset |-> [x |-> 0, y |-> 0, z |-> 0],
                 rotationY |-> 0,
                 shaderTime |-> 0]
    IN [meshes |-> put(st.meshes, message.message_id, mesh),
        nodes |-> put(st.nodes, message.message_id, withTreePart(message, part)),
        scene |-> Append(st.scene, [obj |-> st.nextObj, type |-> "mesh"]),
        created |-> [geometry |-> st.created.geometry + 1,
                     material |-> st.created.material + 1,
                     light |-> st.created.light + 1],
        frames |-> st.frames \cup {[kind |-> "birth", obj |-> st.nextObj,
                                    startTime |-> t, since |-> t]},
        nextObj |-> st.nextObj + 1]

\* loadNodes(messages): messages.forEach(message => this.addNode(message))
RECURSIVE loadNodes(_, _, _, _, _)
loadNodes(st, messages, i, sway, t) ==
  IF i > Len(messages) THEN st
  ELSE loadNodes(addNode(st, messages[i], sway, t), messages, i + 1, sway, t)

\* animate() without the falling branch: the scale stays at the overshoot
birthScaleStuck(elapsed) ==
  LET progress == IF elapsed >= BirthDuration THEN 1000 ELSE (elapsed * 1000) \div BirthDuration
  IN IF progress < 700
     THEN BirthStartScale + (((1100 - BirthStartScale) * progress) \div 700)
     ELSE 1100

\* animateBirth's animate(): the scale at elapsed ms, in thousandths
birthScale(elapsed) ==
  LET progress == IF elapsed >= BirthDuration THEN 1000 ELSE (elapsed * 1000) \div BirthDuration
  IN IF progress < 700
     THEN BirthStartScale + (((1100 - BirthStartScale) * progress) \div 700)
     ELSE 1100 - (((1100 - 1000) * (progress - 700)) \div 300)

\* The messages addNode is called with: as the Composer builds them, the same
\* id with another author, and one stored without placement.
NodeMessages ==
  {Message(<<48>>, <<65>>, <<104, 105>>, 0), Message(<<48>>, <<66>>, <<104>>, 0)}
    \cup {[message_id |-> <<49>>, userName |-> <<66>>, message |-> <<104>>,
           timestamp |-> toISOString(0)]}

Sways == {[phase |-> 0, amplitude |-> 10], [phase |-> 3141, amplitude |-> 29]}

RECURSIVE SeqsUpTo(_, _)
SeqsUpTo(S, n) ==
  IF n = 0 THEN {<<>>}
  ELSE SeqsUpTo(S, n - 1) \cup {Append(q, x) : q \in SeqsUpTo(S, n - 1), x \in S}

NoAdd == [called |-> FALSE, existing |-> FALSE, messageId |-> <<>>,
          before |-> <<>>, after |-> <<>>]

NodeInit ==
  /\ meshes = <<>>
  /\ nodes = <<>>
  /\ scene = <<>>
  /\ created = [geometry |-> 0, material |-> 0, light |-> 0]
  /\ frames = {}
  /\ nextObj = 1
  /\ seenIds = {}
  /\ lastAdd = NoAdd

SetNodeState(st) ==
  /\ meshes' = st.meshes
  /\ nodes' = st.nodes
  /\ scene' = st.scene
  /\ created' = st.created
  /\ frames' = st.frames
  /\ nextObj' = st.nextObj

AddNode(message, sway) ==
  /\ SetNodeState(addNode(NodeState, message, sway, now))
  /\ seenIds' = seenIds \cup {message.message_id}
  /\ lastAdd' = [called |-> TRUE, existing |-> message.message_id \in seenIds,
                 messageId |-> message.message_id,
                 before |-> <<NodeState>>,
                 after |-> <<addNode(NodeState, message, sway, now)>>]
  /\ UNCHANGED <<placeVars, storeVars, hoverVars, composerVars, now>>
  /\ UNCHANGED <<searchVars, modalVars, tierVars, hashVars, swayVars, weatherVars>>

LoadNodes(messages, sway) ==
  /\ SetNodeState(loadNodes(NodeState, messages, 1, sway, now))
  /\ seenIds' = seenIds \cup {messages[i].message_id : i \in DOMAIN messages}
  /\ UNCHANGED <<placeVars, storeVars, hoverVars, composerVars, now, lastAdd>>
  /\ UNCHANGED <<searchVars, modalVars, tierVars, hashVars, swayVars, weatherVars>>

\* A frame: one pending animate() callback runs, at a later time than it was requested.
BirthFrame(f) ==
  /\ f.kind = "birth"
  /\ now > f.since
  /\ \E id \in DOMAIN meshes :
       /\ meshes[id].obj = f.obj
       /\ meshes' = [meshes EXCEPT ![id].scale = birthScale(now - f.startTime)]
  /\ frames' = (frames \ {f}) \cup
                 (IF now - f.startTime < BirthDuration
                  THEN {[f EXCEPT !.since = now]} ELSE {})
  /\ UNCHANGED <<nodes, scene, created, nextObj, seenIds, lastAdd>>
  /\ UNCHANGED <<placeVars, storeVars, hoverVars, composerVars, now>>
  /\ UNCHANGED <<searchVars, modalVars, tierVars, hashVars, swayVars, weatherVars>>

(***************************************************************************)
(* scene/Nodes.js: update and applyWind.  A mesh's position is kept as the *)
(* point it was set to (position, with its cos/sin terms) plus the         *)
(* displacement the last update gave it (swayOffset, in millionths).       *)
(* Math.sin is kept as Bhaskara's rational approximation, which has the    *)
(* sine's sign, period and range; angles are in milliradians.              *)
(***************************************************************************)
PiMilli == 3142

\* sin of an angle of 0 .. pi, in thousandths
sinHalfTurn(x) ==
  LET p == x * (PiMilli - x)
  IN (16 * p) \div (((5 * PiMilli * PiMilli) - (4 * p)) \div 1000)

\* Math.sin(angle), in thousandths
sinMilli(angle) ==
  LET x == angle % (2 * PiMilli)
  IN IF x < PiMilli THEN sinHalfTurn(x) ELSE 0 - sinHalfTurn(x - PiMilli)

\* Math.cos(angle), in thousandths
cosMilli(angle) == sinMilli(angle + (PiMilli \div 2))

\* swayX, swayY, swayZ of update for one mesh at this.time = time (ms)
swayOf(mesh, time) ==
  [x |-> sinMilli(((time * 3) \div 10) + mesh.swayPhase) * mesh.swayAmplitude,
   y |-> (sinMilli(((time * 4) \div 10) + mesh.swayPhase + 1000) * mesh.swayAmplitude) \div 2,
   z |-> cosMilli(((time * 35) \div 100) + mesh.swayPhase) * mesh.swayAmplitude]

\* mesh.position.x += swayX, in place of originalPosition.x + swayX
swayAdded(old, sway) == [x |-> old.x + sway.x, y |-> old.y + sway.y, z |-> old.z + sway.z]

\* mesh.position.x = userData.originalPosition.x + swayX: the displacement
swayFrom(old, sway) == sway

\* update(deltaTime), time being this.time after this.time += deltaTime
update(ms, time, deltaTime) ==
  [id \in DOMAIN ms |->
     [ms[id] EXCEPT !.shaderTime = time,
                    !.position = ms[id].originalPosition,
                    !.swayOffset = swayFrom(ms[id].swayOffset, swayOf(ms[id], time)),
                    !.rotationY = ms[id].rotationY + (deltaTime \div 10)]]

\* applyWind(strength), strength in thousandths
applyWind(ms, strength) ==
  [id \in DOMAIN ms |-> [ms[id] EXCEPT !.swayAmplitude = 20 + ((strength * 50) \div 1000)]]

NoUpdate == [called |-> FALSE, meshes |-> <<>>]

SwayInit ==
  /\ nodeTime = 0
  /\ lastUpdate = NoUpdate

Update(deltaTime) ==
  /\ nodeTime + deltaTime <= SwayHorizon
  /\ nodeTime' = nodeTime + deltaTime
  /\ meshes' = update(meshes, nodeTime', deltaTime)
  /\ lastUpdate' = [called |-> TRUE, meshes |-> meshes']
  /\ UNCHANGED <<nodes, scene, created, frames, nextObj, seenIds, lastAdd>>
  /\ UNCHANGED <<placeVars, storeVars, hoverVars, composerVars, now>>
  /\ UNCHANGED <<searchVars, modalVars, tierVars, hashVars, weatherVars>>

ApplyWind(strength) ==
  /\ meshes' = applyWind(meshes, strength)
  /\ UNCHANGED <<nodes, scene, created, frames, nextObj, seenIds, lastAdd>>
  /\ UNCHANGED <<placeVars, storeVars, hoverVars, composerVars, swayVars, weatherVars, now>>
  /\ UNCHANGED <<searchVars, modalVars, tierVars, hashVars>>

(***************************************************************************)
(* Timers and the clock                                                    *)
(***************************************************************************)
\* setTimeout(callback, delay) at time t: a timer with the next id
setTimeout(ts, id, callback, delay, t) ==
  ts \cup {[k \in DOMAIN callback \cup {"id", "due"} |->
              IF k = "id" THEN id ELSE IF k = "due" THEN t + delay ELSE callback[k]]}

\* clearTimeout(id): an unknown id is ignored
clearTimeout(ts, id) == {t \in ts : t.id # id}

\* No timer is due: a timer runs at its due time, before the clock moves on
\* and before any event that comes later.
Idle == \A t \in timers : t.due > now

Min2(a, b) == IF a < b THEN a ELSE b

RECURSIVE MinOf(_)
MinOf(S) == LET x == CHOOSE y \in S : TRUE
            IN IF S = {x} THEN x ELSE Min2(x, MinOf(S \ {x}))

\* Time passes, up to the next due time.
Advance(step, horizon) ==
  /\ Idle
  /\ now < horizon
  /\ now' = MinOf({now + step, horizon} \cup {t.due : t \in timers})
  /\ UNCHANGED <<placeVars, storeVars, nodeVars, hoverVars, composerVars>>
  /\ UNCHANGED <<searchVars, modalVars, tierVars, hashVars, swayVars, weatherVars>>

(***************************************************************************)
(* scene/Nodes.js: hovering                                                *)
(***************************************************************************)
HoverDelay == 250

\* if (this.hoveredNode !== mesh)
targetChangedAlways(hovered, mesh) == TRUE
targetChanged(hovered, mesh) == hovered # mesh

\* if (this.hoverTimeout) { clearTimeout(this.hoverTimeout); }
cancelPendingSkipped(ts, id) == ts
cancelPending(ts, id) == IF id # 0 THEN clearTimeout(ts, id) ELSE ts

\* main.js onNodeHover(message, x, y)
onNodeHover(label, message, x, y) ==
  IF message # JsNullElem
  THEN [hidden |-> FALSE, text |-> message.userName, left |-> x, top |-> y - 20]
  ELSE [label EXCEPT !.hidden = TRUE]

MeshOf(obj) == meshes[CHOOSE id \in DOMAIN meshes : meshes[id].obj = obj]

\* What a ray through the pointer can hit first: a mesh, or 0 for nothing.
PickTargets == {meshes[id].obj : id \in DOMAIN meshes} \cup {0}
ClientXs == {40}
ClientYs == {60}

NoReveal == [fired |-> FALSE, obj |-> 0, userName |-> <<>>, at |-> 0, on |-> 0, enteredAt |-> 0]
NoCancel == [called |-> FALSE, obj |-> 0, due |-> 0]

HoverInit ==
  /\ hoveredNode = 0
  /\ hoverTimeout = 0
  /\ timers = {}
  /\ nextTimer = 1
  /\ hoverLabel = [hidden |-> TRUE, text |-> <<>>, left |-> 0, top |-> 0]
  /\ pointer = [on |-> 0, enteredAt |-> 0, reveals |-> 0, movedBefore |-> FALSE,
                movedAfter |-> FALSE]
  /\ lastReveal = NoReveal
  /\ lastCancel = NoCancel

\* The timers clearing id removes, as the latest cancellation.
Cancelled(ts, id) ==
  IF \E t \in ts : t.id = id
  THEN LET t == CHOOSE u \in ts : u.id = id
       IN [called |-> TRUE, obj |-> t.obj, due |-> t.due]
  ELSE lastCancel

\* onMouseMove(event): target is intersects[0].object, or 0 when nothing is hit.
OnMouseMove(target, clientX, clientY) ==
  /\ target \in PickTargets
  /\ (target # 0 /\ targetChanged(hoveredNode, target)) => nextTimer <= MaxTimers
  /\ IF target # 0
     THEN IF targetChanged(hoveredNode, target)
          THEN /\ hoveredNode' = target
               /\ hoverTimeout' = nextTimer
               /\ timers' = setTimeout(cancelPending(timers, hoverTimeout), nextTimer,
                                       [kind |-> "hover", obj |-> target,
                                        message |-> MeshOf(target).message,
                                        x |-> clientX, y |-> clientY],
                                       HoverDelay, now)
               /\ nextTimer' = nextTimer + 1
               /\ lastCancel' = IF cancelPending(timers, hoverTimeout) # timers
                                THEN Cancelled(timers, hoverTimeout) ELSE lastCancel
               /\ UNCHANGED hoverLabel
          ELSE UNCHANGED <<hoveredNode, hoverTimeout, timers, nextTimer, hoverLabel,
                           lastCancel>>
     ELSE IF hoveredNode # 0
          THEN /\ timers' = clearTimeout(timers, hoverTimeout)
               /\ hoveredNode' = 0
               /\ hoverLabel' = onNodeHover(hoverLabel, JsNullElem, 0, 0)
               /\ lastCancel' = Cancelled(timers, hoverTimeout)
               /\ UNCHANGED <<hoverTimeout, nextTimer>>
          ELSE UNCHANGED <<hoveredNode, hoverTimeout, timers, nextTimer, hoverLabel,
                           lastCancel>>
  /\ pointer' = IF target # pointer.on
                THEN [on |-> target, enteredAt |-> now, reveals |-> 0,
                      movedBefore |-> FALSE, movedAfter |-> FALSE]
                ELSE [pointer EXCEPT !.movedBefore = @ \/ pointer.reveals = 0,
                                     !.movedAfter = @ \/ pointer.reveals > 0]
  /\ UNCHANGED lastReveal
  /\ UNCHANGED <<placeVars, storeVars, nodeVars, composerVars, now>>
  /\ UNCHANGED <<searchVars, modalVars, tierVars, hashVars, swayVars, weatherVars>>

\* The hover timer's callback runs.
HoverTimerFire(t) ==
  /\ t.kind = "hover"
  /\ t.due <= now
  /\ timers' = timers \ {t}
  /\ hoverLabel' = onNodeHover(hoverLabel, t.message, t.x, t.y)
  /\ lastReveal' = [fired |-> TRUE, obj |-> t.obj, userName |-> t.message.userName,
                    at |-> now, on |-> pointer.on, enteredAt |-> pointer.enteredAt]
  /\ pointer' = IF t.obj = pointer.on /\ pointer.reveals < 2
                THEN [pointer EXCEPT !.reveals = @ + 1] ELSE pointer
  /\ UNCHANGED <<hoveredNode, hoverTimeout, nextTimer, lastCancel>>
  /\ UNCHANGED <<placeVars, storeVars, nodeVars, composerVars, now>>
  /\ UNCHANGED <<searchVars, modalVars, tierVars, hashVars, swayVars, weatherVars>>

(***************************************************************************)
(* utils/hash.js generateMessageId and ui/Composer.js                      *)
(***************************************************************************)
\* One digit of Number.prototype.toString(36): 0-9, then a-z
digit36(d) == IF d < 10 THEN 48 + d ELSE 87 + d

\* n.toString(36) for an integer n >= 0
RECURSIVE toString36(_)
toString36(n) == IF n < 36 THEN <<digit36(n)>> ELSE Append(toString36(n \div 36), digit36(n % 36))

\* str.substring(from, to), with 0 <= from <= to
substring(str, from, to) == SubSeq(str, from + 1, Min2(to, Len(str)))

\* generateMessageId(): dateNow is Date.now(), randomText is Math.random().toString(36)
generateMessageId(dateNow, randomText) ==
  toString36(dateNow) \o <<45>> \o substring(randomText, 2, 8)

\* The texts Math.random().toString(36) returns here: "0.i" (for 0.5) and "0.a3x9k2mq".
RandomTexts == {<<48, 46, 105>>, <<48, 46, 97, 51, 120, 57, 107, 50, 109, 113>>}

IsSpace(c) == c \in {9, 10, 13, 32}

\* String.prototype.trim
RECURSIVE trim(_)
trim(str) ==
  IF str = <<>> THEN str
  ELSE IF IsSpace(Head(str)) THEN trim(Tail(str))
  ELSE IF IsSpace(str[Len(str)]) THEN trim(SubSeq(str, 1, Len(str) - 1))
  ELSE str

ErrorDelay == 1000
GrowingDelay == 500
RestoreDelay == 1500
InitialLabel == "label"

\* showError(element): the style now, and the timer that clears it
showError(element) ==
  [errorStyle |-> errorStyle \cup {element},
   timers |-> setTimeout(timers, nextTimer, [kind |-> "clearError", element |-> element],
                         ErrorDelay, now),
   nextTimer |-> nextTimer + 1]

\* showSuccessAnimation(): the button now, and the two timers
showSuccessAnimation ==
  [submitButton |-> [text |-> "growing", background |-> "gradient"],
   timers |-> setTimeout(setTimeout(timers, nextTimer, [kind |-> "grown"], GrowingDelay, now),
                         nextTimer + 1,
                         [kind |-> "restore", originalText |-> submitButton.text],
                         RestoreDelay, now),
   nextTimer |-> nextTimer + 2]

\* What the visitor types into the two fields.
NameInputs == {<<32>>, <<32, 65, 32>>, <<66>>}
TextInputs == {<<32>>, <<104, 105, 32>>}

NoSubmit == [called |-> FALSE, outcome |-> "none", userName |-> <<>>, messageText |-> <<>>,
             message |-> JsNullElem, saveOk |-> FALSE, before |-> <<>>, after |-> <<>>]

ComposerInit ==
  /\ nameInput = <<>>
  /\ messageTextarea = <<>>
  /\ submitButton = [text |-> InitialLabel, background |-> ""]
  /\ errorStyle = {}
  /\ submits = 0
  /\ lastSubmit = NoSubmit

TypeName(value) ==
  /\ nameInput' = value
  /\ UNCHANGED <<messageTextarea, submitButton, errorStyle, submits, lastSubmit>>
  /\ UNCHANGED <<placeVars, storeVars, nodeVars, hoverVars, now>>
  /\ UNCHANGED <<searchVars, modalVars, tierVars, hashVars, swayVars, weatherVars>>

TypeMessage(value) ==
  /\ messageTextarea' = value
  /\ UNCHANGED <<nameInput, submitButton, errorStyle, submits, lastSubmit>>
  /\ UNCHANGED <<placeVars, storeVars, nodeVars, hoverVars, now>>
  /\ UNCHANGED <<searchVars, modalVars, tierVars, hashVars, swayVars, weatherVars>>

\* if (!userName), if (!messageText)
isBlankNever(str) == FALSE
isBlank(str) == str = <<>>

\* if (saveMessage(message))
saveAcceptedAlways(saved) == TRUE
saveAccepted(saved) == saved.ok

\* What a submission can change: the store, the nodes, the form and the timers.
SubmitView == <<blob, lastSave, NodeState, lastAdd, messageTextarea, submitButton,
                {t.kind : t \in timers}>>

\* handleSubmit(): randomText is the Math.random() draw of generateMessageId,
\* rejected says whether setItem refuses this write, sway holds addNode's draws.
HandleSubmit(randomText, rejected, sway) ==
  LET userName == trim(nameInput)
      messageText == trim(messageTextarea)
      message == Message(generateMessageId(now, randomText), userName, messageText, now)
      saved == saveMessage(message, rejected)
      outcome == IF isBlank(userName) THEN "noName"
                 ELSE IF isBlank(messageText) THEN "noMessage"
                 ELSE IF saveAccepted(saved) THEN "saved" ELSE "failed"
      error == showError(CASE outcome = "noName" -> "nameInput"
                           [] outcome = "noMessage" -> "messageTextarea"
                           [] OTHER -> "submitButton")
  IN /\ submits < MaxSubmits
     /\ submits' = submits + 1
     /\ IF outcome \in {"noName", "noMessage"}
        THEN /\ errorStyle' = error.errorStyle
             /\ timers' = error.timers
             /\ nextTimer' = error.nextTimer
             /\ UNCHANGED <<blob, lastSave, accepted, messageTextarea, submitButton, nodeVars>>
        ELSE /\ blob' = saved.blob
             /\ lastSave' = [called |-> TRUE, message |-> message, before |-> blob,
                             after |-> blob', rejected |-> rejected, ok |-> saved.ok,
                             threw |-> saved.threw]
             /\ accepted' = IF saved.ok THEN Append(accepted, message) ELSE accepted
             /\ IF outcome = "saved"
                THEN /\ SetNodeState(addNode(NodeState, message, sway, now))
                     /\ seenIds' = seenIds \cup {message.message_id}
                     /\ lastAdd' = [called |-> TRUE,
                                    existing |-> message.message_id \in seenIds,
                                    messageId |-> message.message_id,
                                    before |-> <<NodeState>>,
                                    after |-> <<addNode(NodeState, message, sway, now)>>]
                     /\ messageTextarea' = <<>>
                     /\ submitButton' = showSuccessAnimation.submitButton
                     /\ timers' = showSuccessAnimation.timers
                     /\ nextTimer' = showSuccessAnimation.nextTimer
                     /\ UNCHANGED errorStyle
                ELSE /\ errorStyle' = error.errorStyle
                     /\ timers' = error.timers
                     /\ nextTimer' = error.nextTimer
                     /\ UNCHANGED <<messageTextarea, submitButton, nodeVars>>
     /\ lastSubmit' = [called |-> TRUE, outcome |-> outcome, userName |-> userName,
                       messageText |-> messageText,
                       message |-> IF outcome \in {"saved", "failed"} THEN message
                                   ELSE JsNullElem,
                       saveOk |-> outcome \in {"saved", "failed"} /\ saved.ok,
                       before |-> SubmitView, after |-> SubmitView']
     /\ UNCHANGED <<nameInput, storageDenied, tzHours, startedValid, now, settingsBlob,
                     lastClear>>
     /\ UNCHANGED <<placeVars, hoveredNode, hoverTimeout, hoverLabel, pointer, lastReveal,
                    lastCancel>>
     /\ UNCHANGED <<searchVars, modalVars, tierVars, hashVars, swayVars, weatherVars>>

(***************************************************************************)
(* ui/Search.js and NodeSystem.highlightNode                               *)
(***************************************************************************)
\* Vectors: a THREE.Vector3 of numbers, and the terms the code builds from
\* vectors (positions keep their cos/sin terms, so sums stay symbolic).
Vec3(x, y, z) == [x |-> x, y |-> y, z |-> z]
vecAdd(a, b) == [op |-> "add", a |-> a, b |-> b]
lerpVectors(v1, v2, alpha) == [op |-> "lerp", a |-> v1, b |-> v2, alpha |-> alpha]

\* The NodeSystem's maps, the scene, the pending frames and the Search's
\* fields, as one value.
SearchState ==
  [meshes |-> meshes, nodes |-> nodes, scene |-> scene, created |-> created,
   frames |-> frames, nextObj |-> nextObj, isAnimating |-> isAnimating,
   lightBeam |-> lightBeam, camera |-> camera, disposed |-> disposed]

NoBeam == [obj |-> 0, opacity |-> 0]

\* this.meshes.get(messageId)
meshesGet(ms, messageId) == IF messageId \in DOMAIN ms THEN ms[messageId] ELSE JsNullElem

RingStartScale == 500
RingScaleStep == 20
RingFade == 150
RingOpacityMicro == 500000

\* animateHighlight's opacity, in millionths: Math.max(0, 0.5 - scale * 0.15)
ringOpacity(scale) ==
  IF RingOpacityMicro - scale * RingFade > 0 THEN RingOpacityMicro - scale * RingFade ELSE 0

\* this.scene.remove(object)
sceneRemoveNothing(sc, obj) == sc
sceneRemoveAll(sc, obj) == <<>>
sceneRemove(sc, obj) == SelectSeq(sc, LAMBDA child : child.obj # obj)

\* One run of animateHighlight on the ring with this scale.
animateHighlight(st, obj, scale) ==
  IF ringOpacity(scale + RingScaleStep) > 0
  THEN [st EXCEPT !.frames = @ \cup {[kind |-> "ring", obj |-> obj,
                                      scale |-> scale + RingScaleStep,
                                      opacity |-> ringOpacity(scale + RingScaleStep)]}]
  ELSE [st EXCEPT !.scene = sceneRemove(@, obj), !.disposed = @ \cup {obj}]

\* highlightNode(messageId): the state it leaves and what it returns
highlightNode(st, messageId) ==
  LET mesh == meshesGet(st.meshes, messageId)
  IN IF mesh = JsNullElem THEN [st |-> st, result |-> JsNullElem]
     ELSE [st |-> animateHighlight(
                    [st EXCEPT !.scene = Append(@, [obj |-> st.nextObj, type |-> "ring"]),
                               !.created = [@ EXCEPT !.geometry = @ + 1, !.material = @ + 1],
                               !.nextObj = @ + 1],
                    st.nextObj, RingStartScale),
           result |-> mesh.position]

\* removeLightBeam()
removeLightBeam(st) ==
  IF st.lightBeam.obj # 0
  THEN [st EXCEPT !.scene = sceneRemove(@, st.lightBeam.obj),
                  !.disposed = @ \cup {st.lightBeam.obj},
                  !.lightBeam = NoBeam]
  ELSE st

BeamOpacity == 300
FadeDuration == 2000

\* createLightBeam(targetPosition) at time t, with the first fadeAnimate()
createLightBeam(st, targetPosition, t) ==
  [st EXCEPT !.lightBeam = [obj |-> st.nextObj, opacity |-> BeamOpacity],
             !.scene = Append(@, [obj |-> st.nextObj, type |-> "beam"]),
             !.created = [@ EXCEPT !.geometry = @ + 1, !.material = @ + 1],
             !.nextObj = @ + 1,
             !.frames = @ \cup {[kind |-> "fade", fadeStart |-> t, since |-> t]}]

\* (elapsed / duration) that stays below 1
progressNeverFull(elapsed, duration) ==
  IF elapsed >= duration THEN 999 ELSE (elapsed * 1000) \div duration

\* (elapsed / duration) clipped at 1, in thousandths
progressOf(elapsed, duration) ==
  IF elapsed >= duration THEN 1000 ELSE (elapsed * 1000) \div duration

\* Ease-out quad: 1 - (1 - progress) * (1 - progress)
easeOut(progress) == 1000 - (((1000 - progress) * (1000 - progress)) \div 1000)

\* One run of flyToPosition's animate() at time t.
flyAnimate(st, f, t) ==
  LET progress == progressOf(t - f.startTime, f.duration)
      moved == [st EXCEPT !.camera =
                  [position |-> lerpVectors(f.startPosition, f.endPosition, easeOut(progress)),
                   target |-> lerpVectors(f.startTarget, f.endTarget, easeOut(progress))]]
  IN IF progress < 1000
     THEN [moved EXCEPT !.frames = @ \cup {[f EXCEPT !.since = t]}]
     ELSE removeLightBeam([moved EXCEPT !.isAnimating = FALSE])

\* if (this.isAnimating) return;
flyGuardNever(animating) == FALSE
flyGuard(animating) == animating

FlyBase == 800
FlyOffset == Vec3(3, 2, 5)

\* flyToPosition(targetPosition) at time t; spread is Math.random() * 400
flyToPosition(st, targetPosition, spread, t) ==
  IF flyGuard(st.isAnimating) THEN st
  ELSE flyAnimate(createLightBeam([st EXCEPT !.isAnimating = TRUE], targetPosition, t),
                  [kind |-> "fly", startTime |-> t, duration |-> FlyBase + spread,
                   startPosition |-> st.camera.position,
                   startTarget |-> st.camera.target,
                   endPosition |-> vecAdd(targetPosition, FlyOffset),
                   endTarget |-> targetPosition,
                   since |-> t],
                  t)

\* The values Math.random() * 400 takes here.
FlySpreads == {0, 200}

SearchErrorDelay == 2000

\* if (targetPosition)
foundAlways(targetPosition) == TRUE
found(targetPosition) == targetPosition # JsNullElem

\* What the visitor types into the search field; nodes have the ids "0" and "1".
SearchInputs == {<<32, 48>>, <<49>>, <<57>>}

NoFly == [called |-> FALSE, wasAnimating |-> FALSE, target |-> JsNullElem,
          before |-> <<>>, after |-> <<>>]
NoSearch == [called |-> FALSE, outcome |-> "none", messageId |-> <<>>,
             before |-> <<>>, after |-> <<>>, input |-> <<>>]
NoHighlight == [called |-> FALSE, messageId |-> <<>>, result |-> JsNullElem, ring |-> 0,
                before |-> <<>>, after |-> <<>>, hover |-> <<>>]

SearchInit ==
  /\ searchInput = [value |-> <<>>, borderColor |-> "", placeholder |-> "Enter Message ID..."]
  /\ isAnimating = FALSE
  /\ lightBeam = NoBeam
  /\ camera = [position |-> Vec3(15, 10, 20), target |-> Vec3(0, 6, 0)]
  /\ disposed = {}
  /\ searches = 0
  /\ lastFly = NoFly
  /\ lastSearch = NoSearch
  /\ lastHighlight = NoHighlight

SetSearchState(st) ==
  /\ SetNodeState(st)
  /\ isAnimating' = st.isAnimating
  /\ lightBeam' = st.lightBeam
  /\ camera' = st.camera
  /\ disposed' = st.disposed

\* The visitor edits the search field: the input listener clears the border.
TypeSearch(value) ==
  /\ searchInput' = [searchInput EXCEPT !.value = value, !.borderColor = ""]
  /\ UNCHANGED <<isAnimating, lightBeam, camera, disposed, searches, lastFly, lastSearch,
                 lastHighlight>>
  /\ UNCHANGED <<placeVars, storeVars, nodeVars, hoverVars, composerVars, modalVars, tierVars, hashVars, swayVars, weatherVars, now>>

\* handleSearch(): spread is the Math.random() * 400 of flyToPosition.
HandleSearch(spread) ==
  LET messageId == trim(searchInput.value)
      lit == highlightNode(SearchState, messageId)
      flown == flyToPosition(lit.st, lit.result, spread, now)
      outcome == IF messageId = <<>> THEN "empty"
                 ELSE IF found(lit.result) THEN "found" ELSE "notFound"
      final == CASE outcome = "empty" -> SearchState
                 [] outcome = "found" -> flown
                 [] OTHER -> lit.st
      shown == CASE outcome = "empty" ->
                      [searchInput EXCEPT !.borderColor = "error",
                                          !.placeholder = "Please enter a Message ID"]
                 [] outcome = "found" -> [searchInput EXCEPT !.borderColor = "found"]
                 [] OTHER ->
                      [searchInput EXCEPT !.borderColor = "error",
                                          !.placeholder = "Message not found"]
  IN /\ searches < MaxSearches
     /\ searches' = searches + 1
     /\ SetSearchState(final)
     /\ searchInput' = shown
     /\ IF outcome = "found"
        THEN /\ UNCHANGED <<timers, nextTimer>>
             /\ lastFly' = [called |-> TRUE, wasAnimating |-> isAnimating,
                            target |-> lit.result,
                            before |-> <<lit.st>>, after |-> <<flown>>]
        ELSE /\ timers' = setTimeout(timers, nextTimer, [kind |-> "searchReset"],
                                     SearchErrorDelay, now)
             /\ nextTimer' = nextTimer + 1
             /\ UNCHANGED lastFly
     /\ lastHighlight' = IF outcome = "empty" THEN lastHighlight
                         ELSE [called |-> TRUE, messageId |-> messageId,
                               result |-> lit.result,
                               ring |-> IF lit.result = JsNullElem THEN 0 ELSE nextObj,
                               before |-> <<SearchState>>, after |-> <<lit.st>>,
                               hover |-> <<hoveredNode, hoverTimeout>>]
     /\ lastSearch' = [called |-> TRUE, outcome |-> outcome, messageId |-> messageId,
                       before |-> <<SearchState>>, after |-> <<final>>, input |-> shown]
     /\ UNCHANGED <<seenIds, lastAdd, hoveredNode, hoverTimeout, hoverLabel, pointer,
                    lastReveal, lastCancel>>
     /\ UNCHANGED <<placeVars, storeVars, composerVars, modalVars, tierVars, hashVars, swayVars, weatherVars, now>>

\* A frame: the pending animate() of the fly-to runs, later than it was requested.
FlyFrame(f) ==
  /\ f.kind = "fly"
  /\ now > f.since
  /\ SetSearchState(flyAnimate([SearchState EXCEPT !.frames = @ \ {f}], f, now))
  /\ UNCHANGED <<searchInput, searches, lastFly, lastSearch, lastHighlight, seenIds, lastAdd>>
  /\ UNCHANGED <<placeVars, storeVars, hoverVars, composerVars, modalVars, tierVars, hashVars, swayVars, weatherVars, now>>

\* One run of createLightBeam's fadeAnimate() at time t.
fadeAnimate(st, f, t) ==
  IF st.lightBeam.obj # 0 /\ t - f.fadeStart < FadeDuration
  THEN [st EXCEPT !.lightBeam.opacity =
                    (BeamOpacity * (FadeDuration - (t - f.fadeStart))) \div FadeDuration,
                  !.frames = @ \cup {[f EXCEPT !.since = t]}]
  ELSE removeLightBeam(st)

\* A frame: the pending fadeAnimate() runs, later than it was requested.
FadeFrame(f) ==
  /\ f.kind = "fade"
  /\ now > f.since
  /\ SetSearchState(fadeAnimate([SearchState EXCEPT !.frames = @ \ {f}], f, now))
  /\ UNCHANGED <<searchInput, searches, lastFly, lastSearch, lastHighlight, seenIds, lastAdd>>
  /\ UNCHANGED <<placeVars, storeVars, hoverVars, composerVars, modalVars, tierVars, hashVars, swayVars, weatherVars, now>>

\* The timer of Search.showError runs.
SearchTimerFire(t) ==
  /\ t.kind = "searchReset"
  /\ t.due <= now
  /\ timers' = timers \ {t}
  /\ searchInput' = [searchInput EXCEPT !.borderColor = "",
                                        !.placeholder = "Enter Message ID..."]
  /\ UNCHANGED <<hoveredNode, hoverTimeout, nextTimer, hoverLabel, pointer, lastReveal,
                 lastCancel>>
  /\ UNCHANGED <<isAnimating, lightBeam, camera, disposed, searches, lastFly, lastSearch,
                 lastHighlight>>
  /\ UNCHANGED <<placeVars, storeVars, nodeVars, composerVars, modalVars, tierVars, hashVars, swayVars, weatherVars, now>>

(***************************************************************************)
(* NodeSystem.onMouseClick, main.js onNodeClick and ui/Modal.js            *)
(***************************************************************************)
\* this.onNodeClick(mesh.userData.message): the argument
clickPayloadAnonymous(mesh) == [mesh.message EXCEPT !.userName = <<>>]
clickPayload(mesh) == mesh.message

\* Modal.show(message): the texts are set first; capitalizeFirst throws a
\* TypeError on a message without emotion, before the modal is unhidden.
modalShow(m, message) ==
  LET filled == [m EXCEPT !.username = message.userName,
                          !.message = message.message,
                          !.timestamp = message.timestamp,
                          !.messageId = message.message_id]
  IN IF "emotion" \in DOMAIN message
     THEN [threw |-> FALSE, modal |-> [filled EXCEPT !.emotion = message.emotion,
                                                   !.hidden = FALSE]]
     ELSE [threw |-> TRUE, modal |-> filled]

NoClick == [called |-> FALSE, target |-> 0, registered |-> FALSE, calls |-> 0,
            message |-> JsNullElem, threw |-> FALSE, hit |-> <<>>, unchanged |-> TRUE]

\* highlightNode(messageId), called on its own.
HighlightNode(messageId) ==
  /\ searches < MaxPulses
  /\ searches' = searches + 1
  /\ SetSearchState(highlightNode(SearchState, messageId).st)
  /\ lastHighlight' = [called |-> TRUE, messageId |-> messageId,
                       result |-> highlightNode(SearchState, messageId).result,
                       ring |-> IF highlightNode(SearchState, messageId).result = JsNullElem
                                THEN 0 ELSE nextObj,
                       before |-> <<SearchState>>,
                       after |-> <<highlightNode(SearchState, messageId).st>>,
                       hover |-> <<hoveredNode, hoverTimeout>>]
  /\ UNCHANGED <<searchInput, lastFly, lastSearch, seenIds, lastAdd>>
  /\ UNCHANGED <<placeVars, storeVars, hoverVars, composerVars, modalVars, tierVars, hashVars, swayVars, weatherVars, now>>

RingLoops == {f \in frames : f.kind = "ring"}

\* The pending animateHighlight callbacks of one frame, run one after another.
RECURSIVE runRings(_, _)
runRings(st, fs) ==
  IF fs = {} THEN st
  ELSE LET f == CHOOSE g \in fs : TRUE
       IN runRings(animateHighlight([st EXCEPT !.frames = @ \ {f}], f.obj, f.scale),
                   fs \ {f})

\* A frame: every pending animateHighlight runs once.
RingFrame ==
  /\ RingLoops # {}
  /\ SetSearchState(runRings(SearchState, RingLoops))
  /\ UNCHANGED <<searchInput, searches, lastFly, lastSearch, lastHighlight, seenIds, lastAdd>>
  /\ UNCHANGED <<placeVars, storeVars, hoverVars, composerVars, modalVars, tierVars, hashVars, swayVars, weatherVars, now>>

\* The frames a ring's callback has run since the ring was made.
framesRun(f) == (f.scale - RingStartScale - RingScaleStep) \div RingScaleStep

ModalInit ==
  /\ modal = [hidden |-> TRUE, username |-> <<>>, message |-> <<>>, timestamp |-> <<>>,
              messageId |-> <<>>, emotion |-> ""]
  /\ lastClick = NoClick
  /\ onNodeClick = FALSE

\* createScene(): this.nodeSystem.onNodeClick = (message) => this.onNodeClick(message)
RegisterClick ==
  /\ ~onNodeClick
  /\ onNodeClick' = TRUE
  /\ UNCHANGED <<modal, lastClick>>
  /\ UNCHANGED <<placeVars, storeVars, nodeVars, hoverVars, composerVars, searchVars, tierVars, hashVars, swayVars, weatherVars, now>>

\* What a click must leave alone: the nodes and the hover state.
ClickView == <<meshes, nodes, scene, frames, hoveredNode, hoverTimeout, timers, hoverLabel>>

\* onMouseClick(event): target is intersects[0].object, or 0 when nothing is hit.
OnMouseClick(target) ==
  /\ target \in PickTargets
  /\ UNCHANGED onNodeClick
  /\ UNCHANGED <<placeVars, storeVars, nodeVars, hoverVars, composerVars, searchVars, tierVars, hashVars, swayVars, weatherVars, now>>
  /\ IF target # 0 /\ onNodeClick
     THEN /\ modal' = modalShow(modal, clickPayload(MeshOf(target))).modal
          /\ lastClick' = [called |-> TRUE, target |-> target, registered |-> onNodeClick,
                           calls |-> 1, message |-> clickPayload(MeshOf(target)),
                           threw |-> modalShow(modal, clickPayload(MeshOf(target))).threw,
                           hit |-> MeshOf(target).messageId,
                           unchanged |-> ClickView' = ClickView]
     ELSE /\ UNCHANGED modal
          /\ lastClick' = [called |-> TRUE, target |-> target, registered |-> onNodeClick,
                           calls |-> 0, message |-> JsNullElem, threw |-> FALSE,
                           hit |-> IF target = 0 THEN <<>> ELSE MeshOf(target).messageId,
                           unchanged |-> ClickView' = ClickView]

\* Modal.hide()
ModalHide ==
  /\ ~modal.hidden
  /\ modal' = [modal EXCEPT !.hidden = TRUE]
  /\ UNCHANGED <<lastClick, onNodeClick>>
  /\ UNCHANGED <<placeVars, storeVars, nodeVars, hoverVars, composerVars, searchVars, tierVars, hashVars, swayVars, weatherVars, now>>


PlaceInit ==
  /\ randS = 0
  /\ lastCall = NoCall
  /\ heldCall = NoCall

(***************************************************************************)
(* utils/storage.js: calculateTier                                         *)
(***************************************************************************)
\* if (count >= ...) / else if (count >= ...), with > in place of >=
calculateTierStrict(count) ==
  IF count > 100000000 THEN [tier |-> "White", color |-> "#FFFFFF", emoji |-> "green apple"]
  ELSE IF count > 10000000 THEN [tier |-> "Runic", color |-> "#9B59B6", emoji |-> "crystal ball"]
  ELSE IF count > 1000000 THEN [tier |-> "Gold", color |-> "#FFD700", emoji |-> "glowing star"]
  ELSE IF count > 100000 THEN [tier |-> "Silver", color |-> "#C0C0C0", emoji |-> "white circle"]
  ELSE [tier |-> "Red", color |-> "#FF6B6B", emoji |-> "red apple"]

\* the chain with the Gold and Runic results exchanged
calculateTierSwapped(count) ==
  IF count >= 100000000 THEN [tier |-> "White", color |-> "#FFFFFF", emoji |-> "green apple"]
  ELSE IF count >= 10000000 THEN [tier |-> "Gold", color |-> "#FFD700", emoji |-> "glowing star"]
  ELSE IF count >= 1000000 THEN [tier |-> "Runic", color |-> "#9B59B6", emoji |-> "crystal ball"]
  ELSE IF count >= 100000 THEN [tier |-> "Silver", color |-> "#C0C0C0", emoji |-> "white circle"]
  ELSE [tier |-> "Red", color |-> "#FF6B6B", emoji |-> "red apple"]

\* calculateTier(count); an emoji is kept by its name
calculateTier(count) ==
  IF count >= 100000000 THEN [tier |-> "White", color |-> "#FFFFFF", emoji |-> "green apple"]
  ELSE IF count >= 10000000 THEN [tier |-> "Runic", color |-> "#9B59B6", emoji |-> "crystal ball"]
  ELSE IF count >= 1000000 THEN [tier |-> "Gold", color |-> "#FFD700", emoji |-> "glowing star"]
  ELSE IF count >= 100000 THEN [tier |-> "Silver", color |-> "#C0C0C0", emoji |-> "white circle"]
  ELSE [tier |-> "Red", color |-> "#FF6B6B", emoji |-> "red apple"]

NoTier == [called |-> FALSE, count |-> 0,
           result |-> [tier |-> "", color |-> "", emoji |-> ""]]

\* The counts tried: from 0 up, and around each power of ten up to 10^8.
CountsAround(span) ==
  (0..span)
    \cup UNION {(p - span)..(p + span) :
                  p \in {10000, 100000, 1000000, 10000000, 100000000}}

(***************************************************************************)
(* ui/Yearfruit.js, as listed in README.md: getTierInfo and                *)
(* getProgressToNextTier                                                   *)
(***************************************************************************)
\* the table with the Silver threshold a digit short
getTierInfoShifted ==
  <<[tier |-> "Red", threshold |-> 0, emoji |-> "red apple"],
    [tier |-> "Silver", threshold |-> 10000, emoji |-> "white circle"],
    [tier |-> "Gold", threshold |-> 1000000, emoji |-> "glowing star"],
    [tier |-> "Runic", threshold |-> 10000000, emoji |-> "crystal ball"],
    [tier |-> "White", threshold |-> 100000000, emoji |-> "green apple"]>>

\* getTierInfo()
getTierInfo ==
  <<[tier |-> "Red", threshold |-> 0, emoji |-> "red apple"],
    [tier |-> "Silver", threshold |-> 100000, emoji |-> "white circle"],
    [tier |-> "Gold", threshold |-> 1000000, emoji |-> "glowing star"],
    [tier |-> "Runic", threshold |-> 10000000, emoji |-> "crystal ball"],
    [tier |-> "White", threshold |-> 100000000, emoji |-> "green apple"]>>

\* Math.min(Math.max(progress, 0), 1) on the quotient num / den, den > 0,
\* kept as the pair of its numerator and denominator
clampUnit(num, den) ==
  [num |-> IF num < 0 THEN 0 ELSE IF num > den THEN den ELSE num, den |-> den]

\* the for loop of getProgressToNextTier from index i on (i counts from 1);
\* "null" stands for null
RECURSIVE progressLoop(_, _, _)
progressLoop(count, tiers, i) ==
  IF i > Len(tiers) - 1
  THEN [currentTier |-> tiers[Len(tiers)].tier, nextTier |-> "null",
        progress |-> [num |-> 1, den |-> 1], remaining |-> 0]
  ELSE IF count < tiers[i + 1].threshold
  THEN LET current == tiers[i].threshold
           next == tiers[i + 1].threshold
       IN [currentTier |-> tiers[i].tier, nextTier |-> tiers[i + 1].tier,
           progress |-> clampUnit(count - current, next - current),
           remaining |-> next - count]
  ELSE progressLoop(count, tiers, i + 1)

\* getProgressToNextTier(), count being what getMessageCount() returned
getProgressToNextTier(count) == progressLoop(count, getTierInfo, 1)

NoProgress == [called |-> FALSE, count |-> 0,
               result |-> [currentTier |-> "", nextTier |-> "",
                           progress |-> [num |-> 0, den |-> 1], remaining |-> 0]]

\* The counts getMessageCount() returns to getProgressToNextTier.
ProgressSpan == 10
ProgressCounts == CountsAround(ProgressSpan)

GetProgressToNextTier(count) ==
  /\ count \in ProgressCounts
  /\ lastProgress' = [called |-> TRUE, count |-> count,
                      result |-> getProgressToNextTier(count)]
  /\ UNCHANGED <<lastTier, heldTier>>
  /\ UNCHANGED <<placeVars, storeVars, nodeVars, hoverVars, composerVars>>
  /\ UNCHANGED <<searchVars, modalVars, hashVars, swayVars, weatherVars, now>>

TierInit ==
  /\ lastTier = NoTier
  /\ heldTier = NoTier
  /\ lastProgress = NoProgress

TierSpan == 6
TierCounts == CountsAround(TierSpan)

CalculateTier(count) ==
  /\ count \in TierCounts
  /\ lastTier' = [called |-> TRUE, count |-> count, result |-> calculateTier(count)]
  /\ heldTier' \in {heldTier, lastTier}
  /\ UNCHANGED lastProgress
  /\ UNCHANGED <<placeVars, storeVars, nodeVars, hoverVars, composerVars>>
  /\ UNCHANGED <<searchVars, modalVars, hashVars, swayVars, weatherVars, now>>

(***************************************************************************)
(* WeatherSystem (scene) and WeatherUI (ui, with the auto-weather toggle)  *)
(***************************************************************************)
\* const weathers = ['clear', 'rain', 'wind', 'fog', 'snow']
Weathers == <<"clear", "rain", "wind", "fog", "snow">>
WeatherNames == {Weathers[i] : i \in DOMAIN Weathers}

\* this.particles: the particle systems; the fog is this.fogPlane
Particles == {"rain", "snow", "wind"}
Effects == Particles \cup {"fogPlane"}

TransitionDuration == 800
FogDensityMicro == 20000
AutoWeatherPeriod == 30000

\* Math.min(elapsed / transitionDuration, 1), in thousandths
transitionProgress(elapsed) ==
  IF elapsed >= TransitionDuration THEN 1000 ELSE (elapsed * 1000) \div TransitionDuration

\* progress < 0.5 ? 2 * progress * progress : 1 - Math.pow(-2 * progress + 2, 2) / 2
easeInOut(progress) ==
  IF progress < 500 THEN (2 * progress * progress) \div 1000
  ELSE 1000 - (((2000 - 2 * progress) * (2000 - 2 * progress)) \div 2000)

\* previousWeather !== weather, of the clean-up of the particles
replacedKept(previousWeather, current) == FALSE
replaced(previousWeather, current) == previousWeather # current

\* One run of setWeather's animate() at time t for the loop f.
weatherAnimate(ws, f, t) ==
  LET progress == transitionProgress(t - f.startTime)
      eased == easeInOut(progress)
      faded == IF f.previousWeather \in Particles
               THEN [ws EXCEPT !.opacity[f.previousWeather] = 1000 - eased]
               ELSE ws
      cleared == IF f.previousWeather = "fog"
                 THEN [faded EXCEPT !.opacity["fogPlane"] = 1000 - eased,
                                    !.density = ((1000 - eased) * FogDensityMicro) \div 1000]
                 ELSE faded
      shown == IF f.weather \in Particles
               THEN [cleared EXCEPT !.visible[f.weather] = TRUE,
                                    !.opacity[f.weather] = eased]
               ELSE cleared
      fogged == IF f.weather = "fog"
                THEN [shown EXCEPT !.visible["fogPlane"] = TRUE,
                                   !.opacity["fogPlane"] = eased,
                                   !.fog = "sceneFog",
                                   !.density = (eased * FogDensityMicro) \div 1000]
                ELSE shown
      hidden == IF f.previousWeather \in Particles /\ replaced(f.previousWeather, f.weather)
                THEN [fogged EXCEPT !.visible[f.previousWeather] = FALSE]
                ELSE fogged
      lifted == IF f.previousWeather = "fog" /\ f.weather # "fog"
                THEN [hidden EXCEPT !.visible["fogPlane"] = FALSE, !.fog = "originalFog"]
                ELSE hidden
  IN IF progress < 1000
     THEN [fogged EXCEPT !.transitions = @ \cup {[f EXCEPT !.since = t]}]
     ELSE lifted

\* WeatherSystem.setWeather(weather) at time t, with the first animate()
setWeather(ws, name, t) ==
  weatherAnimate([ws EXCEPT !.currentWeather = name, !.nextLoop = @ + 1],
                 [id |-> ws.nextLoop, startTime |-> t,
                  previousWeather |-> ws.currentWeather, weather |-> name, since |-> t],
                 t)

\* new WeatherSystem(scene): every effect hidden with opacity 0, then
\* this.setWeather('clear')
NewWeatherSystem ==
  setWeather([currentWeather |-> "clear",
              visible |-> [e \in Effects |-> FALSE],
              opacity |-> [e \in Effects |-> 0],
              fog |-> "originalFog",
              density |-> 0,
              transitions |-> {},
              nextLoop |-> 1],
             "clear", 0)

\* weathers.indexOf(this.currentWeather), from 0, -1 when it is not there
weatherIndexOf(name) ==
  IF name \in WeatherNames THEN (CHOOSE i \in DOMAIN Weathers : Weathers[i] = name) - 1
  ELSE -1

\* The WeatherUI before its constructor ran; the toggle of the page starts
\* unchecked.
NoWeatherUI == [built |-> FALSE, currentWeather |-> "clear", checked |-> FALSE,
                autoWeatherInterval |-> 0, active |-> ""]

NoWeatherEvent == [kind |-> "none", count |-> 0]

WeatherInit ==
  /\ weather = NewWeatherSystem
  /\ weatherUI = NoWeatherUI
  /\ intervals = {}
  /\ nextInterval = 1
  /\ lastWeatherEvent = NoWeatherEvent

MaxWeatherEvents == 4   \* calls and events of the weather controls in one run

WeatherEvent(kind) ==
  /\ lastWeatherEvent.count < MaxWeatherEvents
  /\ lastWeatherEvent' = [kind |-> kind, count |-> lastWeatherEvent.count + 1]

WeatherRest ==
  /\ UNCHANGED <<blob, storageDenied, tzHours, accepted, startedValid, lastSave, lastClear>>
  /\ UNCHANGED <<placeVars, nodeVars, hoverVars, composerVars, searchVars, modalVars,
                 tierVars, hashVars, swayVars, now>>

\* weatherSystem.setWeather(weather), called on its own
SetWeather(name) ==
  /\ WeatherEvent("setWeather")
  /\ weather' = setWeather(weather, name, now)
  /\ UNCHANGED <<weatherUI, intervals, nextInterval, settingsBlob>>
  /\ WeatherRest

\* A frame: the pending animate() loops of setWeather run in the order in
\* which they were requested.
TransitionFrame(f) ==
  /\ f.since < now
  /\ \A g \in weather.transitions : g.since < now => g.id >= f.id
  /\ weather' = weatherAnimate([weather EXCEPT !.transitions = @ \ {f}], f, now)
  /\ UNCHANGED <<weatherUI, intervals, nextInterval, lastWeatherEvent, settingsBlob>>
  /\ WeatherRest

\* startAutoWeather(): the fields, the intervals and the next id it leaves
startAutoWeather(ui, active, id, t) ==
  [ui |-> [ui EXCEPT !.autoWeatherInterval = id],
   intervals |-> active \cup {[id |-> id, index |-> weatherIndexOf(ui.currentWeather),
                               due |-> t + AutoWeatherPeriod]},
   nextInterval |-> id + 1]

\* stopAutoWeather() without its clearInterval
stopAutoWeatherKept(ui, active, id) ==
  [ui |-> [ui EXCEPT !.autoWeatherInterval = 0], intervals |-> active, nextInterval |-> id]

\* stopAutoWeather()
stopAutoWeather(ui, active, id) ==
  IF ui.autoWeatherInterval # 0
  THEN [ui |-> [ui EXCEPT !.autoWeatherInterval = 0],
        intervals |-> {i \in active : i.id # ui.autoWeatherInterval},
        nextInterval |-> id]
  ELSE [ui |-> ui, intervals |-> active, nextInterval |-> id]

\* saveCurrentSettings()
saveCurrentSettings(ui) ==
  saveSettings([weather |-> ui.currentWeather, autoWeather |-> ui.checked])

\* new WeatherUI(weatherSystem, environment, postProcessing): the fields,
\* setupEventListeners() and loadSettings(). The lighting of the environment
\* and the post-processing follow the weather and are left out.
NewWeatherUI ==
  LET settings == getSettings
      named == settings.weather # ""
      loaded == [NoWeatherUI EXCEPT
                   !.built = TRUE,
                   !.currentWeather = IF named THEN settings.weather ELSE @,
                   !.active = IF named THEN settings.weather ELSE @,
                   !.checked = settings.autoWeather]
      started == startAutoWeather(loaded, intervals, nextInterval, now)
  IN /\ ~weatherUI.built
     /\ WeatherEvent("construct")
     /\ weather' = IF named THEN setWeather(weather, settings.weather, now) ELSE weather
     /\ weatherUI' = IF settings.autoWeather THEN started.ui ELSE loaded
     /\ intervals' = IF settings.autoWeather THEN started.intervals ELSE intervals
     /\ nextInterval' = IF settings.autoWeather THEN started.nextInterval ELSE nextInterval
     /\ UNCHANGED settingsBlob
     /\ WeatherRest

\* A click on the weather button of the given weather.
WeatherButtonClick(name) ==
  LET chosen == [weatherUI EXCEPT !.currentWeather = name, !.active = name]
      stopped == stopAutoWeather([chosen EXCEPT !.checked = FALSE], intervals, nextInterval)
      final == IF chosen.checked THEN stopped
               ELSE [ui |-> chosen, intervals |-> intervals, nextInterval |-> nextInterval]
  IN /\ weatherUI.built
     /\ WeatherEvent("click")
     /\ weather' = setWeather(weather, name, now)
     /\ weatherUI' = final.ui
     /\ intervals' = final.intervals
     /\ nextInterval' = final.nextInterval
     /\ settingsBlob' = saveCurrentSettings(final.ui)
     /\ WeatherRest

\* The visitor flips the auto-weather toggle: its change event.
AutoToggleChange ==
  LET flipped == [weatherUI EXCEPT !.checked = ~@]
      final == IF flipped.checked
               THEN startAutoWeather(flipped, intervals, nextInterval, now)
               ELSE stopAutoWeather(flipped, intervals, nextInterval)
  IN /\ weatherUI.built
     /\ WeatherEvent("change")
     /\ weatherUI' = final.ui
     /\ intervals' = final.intervals
     /\ nextInterval' = final.nextInterval
     /\ settingsBlob' = saveCurrentSettings(final.ui)
     /\ UNCHANGED weather
     /\ WeatherRest

\* The callback of the interval i runs.
AutoWeatherTick(i) ==
  LET index == (i.index + 1) % Len(Weathers)
      newWeather == Weathers[index + 1]
  IN /\ i.due <= now
     /\ WeatherEvent("tick")
     /\ weather' = setWeather(weather, newWeather, now)
     /\ weatherUI' = [weatherUI EXCEPT !.currentWeather = newWeather, !.active = newWeather]
     /\ intervals' = (intervals \ {i}) \cup
                       {[i EXCEPT !.index = index, !.due = @ + AutoWeatherPeriod]}
     /\ UNCHANGED <<nextInterval, settingsBlob>>
     /\ WeatherRest

\* Time passes once the callbacks of this frame and the due intervals ran.
WeatherAdvance(step, horizon) ==
  /\ \A f \in weather.transitions : f.since = now
  /\ \A i \in intervals : i.due > now
  /\ now < horizon
  /\ now' = MinOf({now + step, horizon} \cup {i.due : i \in intervals})
  /\ UNCHANGED <<placeVars, storeVars, nodeVars, hoverVars, composerVars>>
  /\ UNCHANGED <<searchVars, modalVars, tierVars, hashVars, swayVars, weatherVars>>

vars == <<randS, lastCall, heldCall, blob, storageDenied, tzHours, now, accepted,
          startedValid, lastSave, meshes, nodes, scene, created, frames, nextObj,
          seenIds, lastAdd, hoveredNode, hoverTimeout, timers, nextTimer, hoverLabel,
          pointer, lastReveal, lastCancel, nameInput, messageTextarea, submitButton,
          errorStyle, submits, lastSubmit, searchInput, isAnimating, lightBeam, camera,
          disposed, searches, lastFly, lastSearch, lastHighlight, modal, lastClick,
          onNodeClick, lastTier, heldTier, lastProgress, lastHash,
          settingsBlob, lastClear, nodeTime, lastUpdate, weather, weatherUI,
          intervals, nextInterval, lastWeatherEvent>>

Init ==
  /\ PlaceInit
  /\ StoreInit
  /\ NodeInit
  /\ HoverInit
  /\ ComposerInit
  /\ SearchInit
  /\ ModalInit
  /\ TierInit
  /\ HashInit
  /\ SwayInit
  /\ WeatherInit

PlaceNext ==
  \E userName \in PlaceNames, messageId \in PlaceIds :
    \/ PlacementCall(userName, messageId)
    \/ NodePositionCall(userName, messageId)
    \/ CanopyPositionCall(userName, messageId)

\* The placement functions called on their own, on a page with an empty store.
PlaceStart ==
  /\ Init
  /\ blob = Absent
  /\ ~storageDenied
  /\ tzHours = 0

SpecPlace == PlaceStart /\ [][PlaceNext]_vars

StoreNext ==
  \/ \E message \in StoreMessages, rejected \in BOOLEAN : SaveMessage(message, rejected)
  \/ ClearAllMessages

StoreStart ==
  /\ Init
  /\ tzHours = 0

\* The store's functions called directly.
SpecStore == StoreStart /\ [][StoreNext]_vars

SameCall(a, b) ==
  /\ a.fn # "none"
  /\ a.fn = b.fn
  /\ a.userName = b.userName
  /\ a.messageId = b.messageId

TreePartFromSeed ==
  lastCall.fn = "getMessagePlacement" =>
    lastCall.result.treePart =
      TREE_PARTS[U32Mod(hashCode(lastCall.userName \o lastCall.messageId), 4) + 1]

\* A seed of 4 or more whose remainder picks the last part.
TreePartIsRoot ==
  /\ lastCall.fn = "getMessagePlacement"
  /\ lastCall.result.treePart = "root"
  /\ hashCode(lastCall.userName \o lastCall.messageId).lo > 4

NodesNext ==
  \/ \E message \in NodeMessages, sway \in Sways : AddNode(message, sway)
  \/ \E messages \in SeqsUpTo(NodeMessages, MaxLoad), sway \in Sways : LoadNodes(messages, sway)
  \/ \E f \in frames : BirthFrame(f)
  \/ Advance(FrameStep, MaxTime)

NodesStart ==
  /\ Init
  /\ blob = Absent
  /\ ~storageDenied
  /\ tzHours = 0

\* The NodeSystem on its own: nodes are added and loaded while frames run.
SpecNodes == NodesStart /\ [][NodesNext]_vars

HoverNext ==
  \/ \E message \in NodeMessages : now = 0 /\ AddNode(message, [phase |-> 0, amplitude |-> 10])
  \/ \E target \in PickTargets, clientX \in ClientXs, clientY \in ClientYs :
       Idle /\ OnMouseMove(target, clientX, clientY)
  \/ \E t \in timers : HoverTimerFire(t)
  \/ Advance(HoverStep, HoverHorizon)

\* The pointer moves over the nodes that were there at the start.
SpecHover == NodesStart /\ [][HoverNext]_vars

ComposerNext ==
  \/ \E value \in NameInputs : TypeName(value)
  \/ \E value \in TextInputs : TypeMessage(value)
  \/ \E randomText \in RandomTexts, rejected \in BOOLEAN :
       HandleSubmit(randomText, rejected, [phase |-> 0, amplitude |-> 10])
  \/ Advance(1, MaxClock)

\* The visitor fills the form and submits, starting from an empty store.
SpecComposer == NodesStart /\ [][ComposerNext]_vars

\* Every pending callback of the fly-to and of the beam has run in this frame.
FramesRan == \A f \in frames : f.kind \in {"fly", "fade"} => f.since = now

\* loadExistingMessages() runs once, before the visitor does anything.
AppStarting == meshes = <<>> /\ searches = 0 /\ searchInput.value = <<>> /\ now = 0

\* The stored messages the nodes are loaded from at the start.
SearchLoads ==
  {<<Message(<<48>>, <<65>>, <<104, 105>>, 0)>>,
   <<Message(<<48>>, <<65>>, <<104, 105>>, 0),
     [message_id |-> <<49>>, userName |-> <<66>>, message |-> <<104>>,
      timestamp |-> toISOString(0)]>>}

SearchNext ==
  \/ \E messages \in SearchLoads :
       AppStarting /\ LoadNodes(messages, [phase |-> 0, amplitude |-> 10])
  \/ \E value \in SearchInputs : TypeSearch(value)
  \/ \E spread \in FlySpreads : HandleSearch(spread)
  \/ \E f \in frames : FlyFrame(f)
  \/ \E f \in frames : FadeFrame(f)
  \/ \E t \in timers : SearchTimerFire(t)
  \/ FramesRan /\ Advance(SearchStep, SearchHorizon)

\* The visitor searches for message ids while the camera flies.
SpecSearch == NodesStart /\ [][SearchNext]_vars

\* The stored messages the nodes are loaded from before clicking: one as the
\* Composer builds it, one of the emotion variant.
ClickLoads ==
  {<<Message(<<48>>, <<65>>, <<104, 105>>, 0)>>,
   <<Message(<<48>>, <<65>>, <<104, 105>>, 0),
     [message_id |-> <<49>>, userName |-> <<66>>, message |-> <<104>>,
      timestamp |-> toISOString(0), emotion |-> "joy"]>>}

ClickNext ==
  \/ \E messages \in ClickLoads :
       meshes = <<>> /\ now = 0 /\ LoadNodes(messages, [phase |-> 0, amplitude |-> 10])
  \/ RegisterClick
  \/ \E target \in PickTargets, clientX \in ClientXs, clientY \in ClientYs :
       Idle /\ nextTimer <= MaxClickTimers /\ OnMouseMove(target, clientX, clientY)
  \/ \E t \in timers : HoverTimerFire(t)
  \/ \E target \in PickTargets : Idle /\ OnMouseClick(target)
  \/ ModalHide
  \/ Advance(HoverStep, ClickHorizon)

\* The pointer moves over the nodes and clicks.
SpecClick == NodesStart /\ [][ClickNext]_vars

\* The ids highlightNode is called with; nodes have the ids "0" and "1".
PulseIds == {<<48>>, <<49>>, <<57>>}

PulseNext ==
  \/ \E messages \in SearchLoads :
       AppStarting /\ LoadNodes(messages, [phase |-> 0, amplitude |-> 10])
  \/ \E messageId \in PulseIds :
       /\ \A f \in RingLoops : framesRun(f) % PulseGap = 0
       /\ HighlightNode(messageId)
  \/ RingFrame

\* Nodes are highlighted while earlier rings are still fading.
SpecPulse == NodesStart /\ [][PulseNext]_vars

\* The browser keeps running animation frames.
SpecPulseFair == SpecPulse /\ WF_vars(RingFrame)

(***************************************************************************)
(* The store                                                               *)
(***************************************************************************)
\* C3: from an empty or valid store, getAllMessages returns exactly the
\* messages whose save returned true, in the order they were saved, and
\* getMessageCount is their number.
StoreKeepsAccepted ==
  startedValid =>
    /\ getAllMessages = JsValue("array", accepted)
    /\ getMessageCount = Ret(Len(accepted))

\* Two messages were accepted, then a save failed.
StoreHoldsTwoThenRefuses ==
  /\ startedValid
  /\ Len(accepted) = 2
  /\ accepted[1] # accepted[2]
  /\ lastSave.called
  /\ ~lastSave.ok

\* The write of the latest saveMessage call was refused: by the medium (quota,
\* access denied) or by JSON.stringify.
WriteRefused ==
  /\ lastSave.called
  /\ \/ lastSave.rejected
     \/ storageDenied
     \/ IsUnserializable(lastSave.message)

\* C4: when the medium or the serialization refuses the write, saveMessage
\* returns false, does not throw, and leaves the stored text as it was.
RefusedSaveLeavesStore ==
  WriteRefused =>
    /\ ~lastSave.ok
    /\ ~lastSave.threw
    /\ lastSave.after = lastSave.before

\* A write onto a store that holds a message was refused.
RefusedSaveOnFilledStore ==
  /\ WriteRefused
  /\ lastSave.rejected
  /\ lastSave.before.kind = "array"
  /\ Len(lastSave.before.items) > 0

IsMessageArray(b) ==
  /\ b.kind = "array"
  /\ \A i \in DOMAIN b.items : b.items[i].t = "object"

\* C7: whatever the messages key holds that is no message array, and when the
\* read throws, the four read functions do not throw and answer as on an
\* empty store.
ReadsDegradeToEmpty ==
  (storageDenied \/ ~IsMessageArray(blob)) =>
    /\ getAllMessages = EmptyArray
    /\ getMessageCount = Ret(0)
    /\ \A id \in StoreIds : getMessageById(id) = Ret(JsNullElem)
    /\ \A year \in {BaseYear, BaseYear + 1} : getMessagesForYear(year) = Ret(<<>>)

\* The objects of one type among the scene's children.
SceneObjs(type) == {scene[i].obj : i \in {j \in DOMAIN scene : scene[j].type = type}}

\* C8: addNode and loadNodes are idempotent in the message id. After any
\* calls, meshes and nodes hold exactly the ids handed in, the scene holds
\* exactly one mesh per id (no object twice), one geometry, one material and
\* one light were constructed per id, and an addNode call for an id already
\* present changes nothing: no construction, no new frame callback, no
\* change to the scale or the start time of the birth animation.
AddNodeIdempotent ==
  /\ DOMAIN meshes = seenIds
  /\ DOMAIN nodes = seenIds
  /\ Len(scene) = Cardinality(seenIds)
  /\ SceneObjs("mesh") = {meshes[id].obj : id \in DOMAIN meshes}
  /\ Cardinality(SceneObjs("mesh")) = Cardinality(seenIds)
  /\ created = [geometry |-> Cardinality(seenIds), material |-> Cardinality(seenIds),
                light |-> Cardinality(seenIds)]
  /\ Cardinality({f \in frames : f.kind = "birth"}) <= Cardinality(seenIds)
  /\ (lastAdd.called /\ lastAdd.existing) => lastAdd.before = lastAdd.after

\* A node whose birth animation is under way is added again, with another
\* author, while a second node exists.
AddNodeRepeatedMidBirth ==
  /\ lastAdd.called
  /\ lastAdd.existing
  /\ Cardinality(seenIds) = 2
  /\ meshes[lastAdd.messageId].scale > BirthStartScale
  /\ meshes[lastAdd.messageId].message.userName # <<66>>
  /\ \E f \in frames : f.obj = meshes[lastAdd.messageId].obj /\ f.since > f.startTime

\* C9: a hover that ends early reveals nothing. Whenever onNodeHover is
\* called with a message, the pointer is on that message's node and has been
\* since at least HoverDelay ms; and every pending hover timer is the latest
\* one and belongs to the node the pointer is on, so a timer of a node the
\* pointer has left is gone.
HoverCancelledOnLeave ==
  /\ lastReveal.fired =>
       /\ lastReveal.on = lastReveal.obj
       /\ lastReveal.at - lastReveal.enteredAt >= HoverDelay
  /\ \A t \in timers :
       t.kind = "hover" => t.id = hoverTimeout /\ t.obj = hoveredNode /\ t.obj = pointer.on

\* The pointer left a node before its timer was due, on to another node,
\* that time has passed, and nothing was ever revealed.
HoverLeftEarlyNoReveal ==
  /\ lastCancel.called
  /\ now > lastCancel.due
  /\ pointer.on # 0
  /\ pointer.on # lastCancel.obj
  /\ now < pointer.enteredAt + HoverDelay
  /\ ~lastReveal.fired
  /\ hoverLabel.hidden

StoredIdsUnique ==
  LET stored == getAllMessages.items
  IN \A i, j \in DOMAIN stored : i # j => stored[i].message_id # stored[j].message_id

\* C6: every message saveMessage accepted is what getMessageById returns for
\* its id. (This fails for the second of two stored messages with one id.)
AcceptedFoundById ==
  \A i \in DOMAIN accepted :
    getMessageById(accepted[i].message_id) = Ret(accepted[i])

FlyLoops == {f \in frames : f.kind = "fly"}

\* C11: a fly-to in flight is not re-entered. At most one animate() loop of
\* flyToPosition is pending at any time, and only while isAnimating is set;
\* the scene never holds two light beams; and a flyToPosition call made
\* while isAnimating is set changes nothing: no new loop, no new beam, the
\* same end position of the loop in flight, the same camera.
FlyToNotReentered ==
  /\ Cardinality(FlyLoops) <= 1
  /\ FlyLoops # {} => isAnimating
  /\ Cardinality(SceneObjs("beam")) <= 1
  /\ (lastFly.called /\ lastFly.wasAnimating) => lastFly.before = lastFly.after

\* A search for another node arrived while the camera was part of the way
\* to the first one.
FlyToCalledMidFlight ==
  /\ lastFly.called
  /\ lastFly.wasAnimating
  /\ \E f \in FlyLoops :
       /\ f.since > f.startTime
       /\ f.endTarget # lastFly.target
       /\ camera.position = lerpVectors(f.startPosition, f.endPosition,
                                        easeOut(progressOf(f.since - f.startTime, f.duration)))

\* The messages a blob holds for getAllMessages.
storedIn(b) == IF b.kind = "array" THEN parse(b).items ELSE <<>>

\* C12: a successful submission. After a handleSubmit that saved its
\* message, the store is one longer than before the call, getMessageById of
\* the new id returns the submitted message, the NodeSystem holds one mesh
\* for the id, once in the scene, and that mesh's originalPosition is
\* getMessagePlacement(userName, id).position. (This fails when the id
\* repeats an earlier one.)
SubmitStoresAndPlants ==
  lastSubmit.outcome = "saved" =>
    LET m == lastSubmit.message
    IN /\ Len(storedIn(blob)) = Len(storedIn(lastSave.before)) + 1
       /\ getMessageById(m.message_id) = Ret(m)
       /\ m.message_id \in DOMAIN meshes
       /\ Cardinality({i \in DOMAIN scene : scene[i].obj = meshes[m.message_id].obj}) = 1
       /\ meshes[m.message_id].originalPosition
            = getMessagePlacement(m.userName, m.message_id).position

\* C13: a failed save triggers nothing. After a handleSubmit that reached
\* saveMessage and got false, onMessageSubmit was not called (no addNode, the
\* nodes are as before), the textarea still holds its text, the button and
\* the store are as before and no success timer was set; and every node
\* that came from a submission has its message in the store.
FailedSaveTriggersNothing ==
  /\ (lastSubmit.called /\ lastSubmit.message # JsNullElem /\ ~lastSubmit.saveOk) =>
       /\ lastSubmit.after[1] = lastSubmit.before[1]
       /\ lastSubmit.after[3] = lastSubmit.before[3]
       /\ lastSubmit.after[4] = lastSubmit.before[4]
       /\ lastSubmit.after[5] = lastSubmit.before[5]
       /\ lastSubmit.after[5] # <<>>
       /\ lastSubmit.after[6] = lastSubmit.before[6]
       /\ lastSubmit.after[7] \ lastSubmit.before[7] \subseteq {"clearError"}
  /\ \A id \in DOMAIN meshes :
       \E i \in DOMAIN storedIn(blob) : storedIn(blob)[i] = meshes[id].message

\* A save was refused after an earlier one had planted a node; the text is
\* still in the textarea and the button carries the error style.
FailedSaveAfterPlanting ==
  /\ lastSubmit.called
  /\ lastSubmit.outcome = "failed"
  /\ DOMAIN meshes # {}
  /\ lastSubmit.message.message_id \notin DOMAIN meshes
  /\ trim(messageTextarea) = lastSubmit.messageText
  /\ "submitButton" \in errorStyle

\* C14: validation comes before the store. After a handleSubmit whose name
\* or text was empty after trimming, no message was built, saveMessage was
\* not called (the store and the record of its latest call are as before),
\* the nodes are as before and onMessageSubmit was not called.
BlankSubmitRejected ==
  (lastSubmit.called /\ (lastSubmit.userName = <<>> \/ lastSubmit.messageText = <<>>)) =>
     /\ lastSubmit.message = JsNullElem
     /\ lastSubmit.after[1] = lastSubmit.before[1]
     /\ lastSubmit.after[2] = lastSubmit.before[2]
     /\ lastSubmit.after[3] = lastSubmit.before[3]
     /\ lastSubmit.after[4] = lastSubmit.before[4]

\* A submission with a name of blanks only was rejected while the store
\* held a message and the text field was filled.
BlankNameRejectedOnFilledStore ==
  /\ lastSubmit.called
  /\ lastSubmit.outcome = "noName"
  /\ nameInput = <<32>>
  /\ lastSubmit.messageText # <<>>
  /\ Len(storedIn(blob)) = 1
  /\ "nameInput" \in errorStyle

\* C15: an unknown id is signalled, nothing is thrown or started. A
\* highlightNode call for an id with no mesh returns null and leaves the
\* scene, the frames and everything else as they were; the handleSearch that
\* made the call shows "Message not found" with the error border and leaves
\* the camera, the controls target, isAnimating, the scene and the frames as
\* they were.
UnknownIdSignalled ==
  /\ (lastHighlight.called
        /\ lastHighlight.messageId \notin DOMAIN lastHighlight.before[1].meshes) =>
       /\ lastHighlight.result = JsNullElem
       /\ lastHighlight.after = lastHighlight.before
  /\ (lastSearch.called /\ lastSearch.messageId # <<>>
        /\ lastSearch.messageId \notin DOMAIN lastSearch.before[1].meshes) =>
       /\ lastSearch.after = lastSearch.before
       /\ lastSearch.input.placeholder = "Message not found"
       /\ lastSearch.input.borderColor = "error"

\* The id "9" was searched for while nodes existed and the camera was
\* flying to one of them.
UnknownIdSearchedMidFlight ==
  /\ lastSearch.called
  /\ lastSearch.messageId = <<57>>
  /\ lastSearch.outcome = "notFound"
  /\ DOMAIN meshes # {}
  /\ lastSearch.before[1].isAnimating
  /\ searchInput.placeholder = "Message not found"

\* C16: click dispatch. A click that hits a node while the callback is
\* registered calls onNodeClick once, with a message that has the id, the
\* author and the text of the message the node was loaded from; a click that
\* hits nothing calls nothing; either way the nodes, the scene, the frames
\* and the hover state (hoveredNode, the timers, the label) are as before.
ClickDispatchesMessage ==
  lastClick.called =>
    /\ (lastClick.target # 0 /\ lastClick.registered) =>
         /\ lastClick.calls = 1
         /\ \E messages \in ClickLoads : \E i \in DOMAIN messages :
              /\ messages[i].message_id = lastClick.message.message_id
              /\ messages[i].userName = lastClick.message.userName
              /\ messages[i].message = lastClick.message.message
              /\ messages[i].message_id = lastClick.hit
    /\ lastClick.target = 0 => lastClick.calls = 0
    /\ lastClick.unchanged

\* The second node was clicked while the pointer hovered over it with its
\* hover timer pending, and the modal opened with its text.
ClickedWhileHovering ==
  /\ lastClick.called
  /\ lastClick.calls = 1
  /\ lastClick.message.message_id = <<49>>
  /\ hoveredNode = lastClick.target
  /\ timers # {}
  /\ ~modal.hidden
  /\ modal.username = <<66>>

\* The objects that are rings: made by highlightNode, in the scene or not.
RingsMade == {o \in 1..(nextObj - 1) : \A id \in DOMAIN meshes : meshes[id].obj # o}

PulseSafe ==
  /\ (lastHighlight.called /\ lastHighlight.result # JsNullElem) =>
       lastHighlight.after[1].scene
         = Append(lastHighlight.before[1].scene, [obj |-> lastHighlight.ring, type |-> "ring"])
  /\ \A f \in RingLoops :
       f.obj \in SceneObjs("ring") /\ f.obj \notin disposed /\ f.opacity > 0
  /\ \A o \in SceneObjs("ring") :
       /\ Cardinality({f \in RingLoops : f.obj = o}) = 1
       /\ Cardinality({i \in DOMAIN scene : scene[i].obj = o}) = 1
  /\ RingsMade = SceneObjs("ring") \cup disposed

\* C17: the highlight pulse ends by itself. Every highlightNode call on an
\* existing id appends one ring to the scene; a ring in the scene has one
\* pending frame callback and an opacity above 0; a ring whose opacity
\* reached 0 is out of the scene, disposed and has no callback; and with
\* frames running, every ring in the scene is eventually disposed, also
\* when several rings are fading at once.
PulseSelfTerminates ==
  /\ []PulseSafe
  /\ \A o \in 1..(MaxLoad + MaxPulses) :
       (o \in SceneObjs("ring")) ~> (o \in disposed /\ o \notin SceneObjs("ring"))

\* One ring has faded and was disposed while a second one, made later, is
\* still fading.
PulseEndedBesideAnother ==
  /\ searches = 2
  /\ Cardinality(disposed) = 1
  /\ Cardinality(RingLoops) = 1
  /\ \A f \in RingLoops : \A o \in disposed : f.obj > o

\* The children of the scene that are no rings.
NotRings(sc) == SelectSeq(sc, LAMBDA child : child.type # "ring")

\* C18: highlightNode changes nothing that lasts. Whatever the id, the call
\* leaves the meshes and nodes maps (each node's message, originalPosition,
\* sway parameters and scale) and hoveredNode and hoverTimeout as they
\* were, and leaves every child of the scene that is no ring in place; once
\* the ring of the call has faded it is out of the scene, and when no ring
\* is left the scene is what it was before the call, without rings.
HighlightLeavesNodes ==
  lastHighlight.called =>
    /\ lastHighlight.after[1].meshes = lastHighlight.before[1].meshes
    /\ lastHighlight.after[1].nodes = lastHighlight.before[1].nodes
    /\ meshes = lastHighlight.before[1].meshes
    /\ nodes = lastHighlight.before[1].nodes
    /\ <<hoveredNode, hoverTimeout>> = lastHighlight.hover
    /\ NotRings(scene) = NotRings(lastHighlight.before[1].scene)
    /\ lastHighlight.ring \in disposed => lastHighlight.ring \notin SceneObjs("ring")
    /\ (lastHighlight.ring \in disposed /\ RingLoops = {}) =>
         scene = NotRings(lastHighlight.before[1].scene)

\* Two nodes exist, one was highlighted, and its ring has faded and is gone.
HighlightFadedOnTwoNodes ==
  /\ lastHighlight.called
  /\ lastHighlight.ring \in disposed
  /\ RingLoops = {}
  /\ Len(scene) = 2
  /\ Cardinality(DOMAIN meshes) = 2

\* Messages as handleSubmit stamps them at time t, and one of an older
\* version that carries no timestamp.
YearMessages(t) ==
  {Message(id, <<65>>, <<104, 105>>, t) : id \in StoreIds}
    \cup {[message_id |-> <<57>>, userName |-> <<66>>, message |-> <<104>>]}

YearNext ==
  \/ \E message \in YearMessages(now), rejected \in BOOLEAN : SaveMessage(message, rejected)
  \/ Advance(1, MaxClock)

\* An empty store, in a browser of any time zone, around a New Year.
YearStart ==
  /\ Init
  /\ blob = Absent
  /\ ~storageDenied

\* Messages are stored around the New Year and filtered by year.
SpecYear == YearStart /\ [][YearNext]_vars

\* The calendar year a message's timestamp names; 0 for no timestamp.
stampYear(m) ==
  IF "timestamp" \in DOMAIN m /\ Len(m.timestamp) = 2 THEN m.timestamp[1] ELSE 0

\* C19: getMessagesForYear(Y) returns exactly the messages of
\* getAllMessages(), in their order, whose timestamp names a moment of the
\* calendar year Y: one stamped in the last moment of Y is in the result
\* for Y, one stamped in the first moment of Y + 1 is not. (This fails in a
\* browser whose time zone is not UTC: the stamp is written in UTC and the
\* year is read in local time.)
YearFilterExact ==
  \A year \in {BaseYear, BaseYear + 1} :
    getMessagesForYear(year)
      = Ret(SelectSeq(getAllMessages.items, LAMBDA m : stampYear(m) = year))

TierNext == \E count \in TierCounts : CalculateTier(count)

\* calculateTier called on its own, on counts around every threshold.
SpecTier == NodesStart /\ [][TierNext]_vars

\* The ascending tier table: threshold and name.
TierTable ==
  <<[threshold |-> 0, tier |-> "Red"], [threshold |-> 100000, tier |-> "Silver"],
    [threshold |-> 1000000, tier |-> "Gold"], [threshold |-> 10000000, tier |-> "Runic"],
    [threshold |-> 100000000, tier |-> "White"]>>

\* C20: calculateTier(count) is the highest tier of the table Red 0, Silver
\* 100000, Gold 1000000, Runic 10000000, White 100000000 whose threshold is
\* at most count: the entry whose threshold is at most count while the next
\* entry's, if there is one, is above it. So 99999 is Red, 100000 is Silver
\* and 100000000 is White.
TierIsHighestReached ==
  lastTier.called =>
    /\ \E i \in DOMAIN TierTable :
         /\ TierTable[i].threshold <= lastTier.count
         /\ i < Len(TierTable) => lastTier.count < TierTable[i + 1].threshold
         /\ lastTier.result.tier = TierTable[i].tier
    /\ lastTier.count = 99999 => lastTier.result.tier = "Red"
    /\ lastTier.count = 100000 => lastTier.result.tier = "Silver"
    /\ lastTier.count = 100000000 => lastTier.result.tier = "White"

\* calculateTier was called on a count that is exactly a threshold.
TierAtThreshold ==
  /\ lastTier.called
  /\ lastTier.count = 1000000
  /\ lastTier.result.tier = "Gold"

\* The place of a tier name in the order Red < Silver < Gold < Runic < White.
tierRank(tier) ==
  CASE tier = "Red" -> 1
    [] tier = "Silver" -> 2
    [] tier = "Gold" -> 3
    [] tier = "Runic" -> 4
    [] tier = "White" -> 5
    [] OTHER -> 0

\* C21: calculateTier is monotonic. Of two calls, the one with the smaller
\* or equal count returns a tier whose rank in Red < Silver < Gold < Runic <
\* White is not greater than the rank of the other's tier.
TierMonotonic ==
  (lastTier.called /\ heldTier.called /\ heldTier.count <= lastTier.count) =>
    /\ tierRank(heldTier.result.tier) >= 1
    /\ tierRank(heldTier.result.tier) <= tierRank(lastTier.result.tier)

\* Two calls whose counts lie on the two sides of a threshold, the later
\* call with the smaller count.
TierComparedAcrossThreshold ==
  /\ lastTier.called
  /\ heldTier.called
  /\ lastTier.count = 9999999
  /\ heldTier.count = 10000000
  /\ tierRank(lastTier.result.tier) < tierRank(heldTier.result.tier)

ProgressNext == \E count \in ProgressCounts : GetProgressToNextTier(count)

\* getProgressToNextTier called on stores of every size around a threshold.
SpecProgress == NodesStart /\ [][ProgressNext]_vars

\* C22: for the message count c, getProgressToNextTier returns as
\* currentTier the tier calculateTier(c) names. Below the final threshold
\* nextTier is the tier that follows in the table, progress is
\* (c - current threshold) / (next threshold - current threshold), within
\* [0, 1], and remaining is next threshold - c, above 0. At or above the
\* final threshold nextTier is null, progress is 1 and remaining is 0.
ProgressToNextTier ==
  lastProgress.called =>
    LET c == lastProgress.count
        r == lastProgress.result
        last == Len(TierTable)
    IN /\ r.currentTier = calculateTier(c).tier
       /\ IF c >= TierTable[last].threshold
          THEN /\ r.nextTier = "null"
               /\ r.progress.num = r.progress.den
               /\ r.remaining = 0
          ELSE \E i \in 1..(last - 1) :
                 /\ TierTable[i].threshold <= c
                 /\ c < TierTable[i + 1].threshold
                 /\ r.nextTier = TierTable[i + 1].tier
                 /\ r.progress = [num |-> c - TierTable[i].threshold,
                                  den |-> TierTable[i + 1].threshold - TierTable[i].threshold]
                 /\ 0 <= r.progress.num
                 /\ r.progress.num <= r.progress.den
                 /\ r.remaining = TierTable[i + 1].threshold - c
                 /\ r.remaining > 0

\* The call was made one message short of the Gold threshold.
ProgressJustBelowGold ==
  /\ lastProgress.called
  /\ lastProgress.count = 999999
  /\ lastProgress.result.nextTier = "Gold"
  /\ lastProgress.result.remaining = 1

HashNext == \E str \in HashInputs : HashCode(str)

\* hashCode called on its own.
SpecHash == PlaceStart /\ [][HashNext]_vars

\* The accumulator after the first n characters of str.
accAfter(str, n) == hashLoop(SubSeq(str, 1, n), 1, 0)

\* y is x * 32 - x + char wrapped to 32 bits: the two agree on the low 16
\* bits and, with the carry of the low half, on the high 16 bits.
WrappedStep(x, char, y) ==
  LET low == ((32 * (x % Half)) - (x % Half)) + char
      high == ((32 * ((x \div Half) % Half)) - ((x \div Half) % Half)) + (low \div Half)
  IN /\ y % Half = low % Half
     /\ (y \div Half) % Half = high % Half

\* The result is the absolute value of the accumulator h.
IsAbsOf(result, h) ==
  /\ result.hi \in 0..32768
  /\ result.lo \in 0..(Half - 1)
  /\ result.hi = 32768 => result.lo = 0
  /\ \/ h >= 0 /\ result.hi < 32768 /\ (result.hi * Half) + result.lo = h
     \/ h < 0 /\ result.hi < 32768 /\ (result.hi * Half) + result.lo = 0 - h
     \/ h < 0 /\ result = U32(32768, 0) /\ h + 1 = 0 - 2147483647

HashSteps ==
  LET str == lastHash.str
  IN /\ accAfter(str, 0) = 0
     /\ \A n \in 1..Len(str) : WrappedStep(accAfter(str, n - 1), str[n], accAfter(str, n))
     /\ IsAbsOf(lastHash.result, accAfter(str, Len(str)))
     /\ str = <<>> => lastHash.result = U32(0, 0)

\* C23, as claimed: hashCode(str) starts from 0, updates the accumulator
\* with every character to hash * 32 - hash + charCode wrapped to a signed
\* 32-bit value, and returns the absolute value of the final accumulator,
\* an integer of 0 .. 2^31 - 1; the empty string hashes to 0. (The range
\* fails for a string whose accumulator ends at -2^31.)
HashBelowTwoTo31 ==
  lastHash.called => (HashSteps /\ lastHash.result.hi < 32768)

\* C23: as above, with the result an integer of 0 .. 2^31, the value 2^31
\* being returned exactly when the final accumulator is -2^31.
HashAtMostTwoTo31 ==
  lastHash.called =>
    /\ HashSteps
    /\ lastHash.result.hi <= 32768
    /\ lastHash.result.hi = 32768 =>
         /\ lastHash.result.lo = 0
         /\ accAfter(lastHash.str, Len(lastHash.str)) < 0
         /\ accAfter(lastHash.str, Len(lastHash.str)) % Half = 0
         /\ accAfter(lastHash.str, Len(lastHash.str)) \div Half = 0 - 32768

\* hashCode was called on a string whose accumulator ends at -2^31.
HashOfMinAccumulator ==
  /\ lastHash.called
  /\ Len(lastHash.str) = 6
  /\ lastHash.result = U32(32768, 0)

\* The settings objects the weather panel saves.
ClearSettings == {[weather |-> "rain", autoWeather |-> FALSE],
                  [weather |-> "clear", autoWeather |-> TRUE]}

\* The messages saved before and after the store is cleared.
ClearMessages == {Message(<<48>>, <<65>>, <<104, 105>>, 0), Message(<<49>>, <<66>>, <<104>>, 0)}

ClearNext ==
  \/ \E message \in ClearMessages : SaveMessage(message, FALSE)
  \/ \E settings \in ClearSettings : SaveSettings(settings)
  \/ ClearAllMessages

\* Messages and settings are saved, and the messages are cleared.
SpecClear == StoreStart /\ [][ClearNext]_vars

\* C24: clearAllMessages empties the store. From the call on, until
\* saveMessage next accepts a message, getAllMessages returns the empty
\* array, getMessageCount 0 and getMessageById null for every id; and the
\* call leaves the text under the settings key, and so what getSettings
\* returns, as it was.
ClearEmptiesMessagesOnly ==
  lastClear.called =>
    /\ lastClear.after[2] = lastClear.before[2]
    /\ accepted = <<>> =>
         /\ getAllMessages = EmptyArray
         /\ getMessageCount = Ret(0)
         /\ \A id \in StoreIds \cup {<<57>>} : getMessageById(id) = Ret(JsNullElem)

\* The store held two messages and settings were saved when it was cleared.
ClearedFilledStore ==
  /\ lastClear.called
  /\ ~lastClear.threw
  /\ lastClear.before[1].kind = "array"
  /\ Len(lastClear.before[1].items) = 2
  /\ lastClear.before[2].kind = "json"
  /\ getSettings.weather = "rain"
  /\ accepted = <<>>

BirthAdvance == Advance(BirthStep, BirthHorizon)

BirthFrames == \E f \in frames : BirthFrame(f)

\* The messages whose nodes are born: two ids.
BirthMessages ==
  {Message(<<48>>, <<65>>, <<104, 105>>, 0), Message(<<49>>, <<66>>, <<104>>, 0)}

BirthNext ==
  \/ \E message \in BirthMessages :
       /\ message.message_id \notin seenIds
       /\ now + BirthDuration <= BirthHorizon
       /\ AddNode(message, [phase |-> 0, amplitude |-> 10])
  \/ BirthFrames
  \/ BirthAdvance

\* Nodes are born while frames run at any pace.
SpecBirth == NodesStart /\ [][BirthNext]_vars

\* The browser keeps delivering frames and time goes on.
SpecBirthFair == SpecBirth /\ WF_vars(BirthFrames) /\ WF_vars(BirthAdvance)

BirthLoops(obj) == {f \in frames : f.kind = "birth" /\ f.obj = obj}

\* The curve of animate(): 0.1 at the start, within [0.1, 1.1], rising up
\* to 70% of the duration where it is 1.1, falling from there on, and 1.0
\* from the end of the duration on.
BirthCurve ==
  LET peakAt == (7 * BirthDuration) \div 10
  IN /\ birthScale(0) = BirthStartScale
     /\ birthScale(peakAt) = 1100
     /\ \A e \in 0..BirthHorizon :
          /\ birthScale(e) >= BirthStartScale
          /\ birthScale(e) <= 1100
          /\ e < peakAt => birthScale(e) < 1100 /\ birthScale(e) <= birthScale(e + 1)
          /\ e >= peakAt => birthScale(e) >= birthScale(e + 1)
          /\ e >= BirthDuration => birthScale(e) = 1000

BirthSafe ==
  /\ BirthCurve
  /\ \A id \in DOMAIN meshes :
       LET mesh == meshes[id]
       IN /\ mesh.scale >= BirthStartScale
          /\ mesh.scale <= 1100
          /\ Cardinality(BirthLoops(mesh.obj)) <= 1
          /\ BirthLoops(mesh.obj) = {} => mesh.scale = 1000
          /\ \A f \in BirthLoops(mesh.obj) :
               /\ f.since - f.startTime < BirthDuration
               /\ mesh.scale = birthScale(f.since - f.startTime)

\* C25: the birth transition. animateBirth sets the scale to 0.1; the scale
\* follows a curve that stays within [0.1, 1.1], rises to its one peak 1.1
\* at 70% of the 1200 ms and falls to 1.0 at 100%; a frame callback is
\* pending only while the last frame ran before 1200 ms, the first frame at
\* or after 1200 ms sets the scale to 1.0 and requests no further frame;
\* and with frames being delivered every birth animation ends, the node at
\* scale 1.0.
BirthEndsAtRest ==
  /\ []BirthSafe
  /\ \A obj \in 1..MaxLoad :
       (BirthLoops(obj) # {}) ~>
         (BirthLoops(obj) = {} /\ \E id \in DOMAIN meshes :
                                    meshes[id].obj = obj /\ meshes[id].scale = 1000)

\* Two nodes were born at different times; the first is at rest while the
\* second is at its peak.
BirthDoneBesidePeak ==
  /\ Cardinality(DOMAIN meshes) = 2
  /\ \E a, b \in DOMAIN meshes :
       /\ BirthLoops(meshes[a].obj) = {}
       /\ meshes[a].scale = 1000
       /\ BirthLoops(meshes[b].obj) # {}
       /\ meshes[b].scale = 1100

\* The deltaTime of a frame, ms: two long frames.
SwayDeltas == {500, 1000}

\* Wind strengths, in thousandths: calm and full.
WindStrengths == {0, 1000}

SwayNext ==
  \/ \E messages \in SearchLoads, sway \in Sways :
       AppStarting /\ nodeTime = 0 /\ LoadNodes(messages, sway)
  \/ \E deltaTime \in SwayDeltas : Update(deltaTime)
  \/ \E strength \in WindStrengths : ApplyWind(strength)
  \/ \E messageId \in PulseIds : searches = 0 /\ HighlightNode(messageId)
  \/ \E target \in PickTargets, clientX \in ClientXs, clientY \in ClientYs :
       nextTimer <= 1 /\ OnMouseMove(target, clientX, clientY)
  \/ \E target \in PickTargets : ~lastClick.called /\ OnMouseClick(target)

\* The nodes sway while the wind changes and nodes are highlighted, hovered
\* and clicked.
SpecSway == NodesStart /\ [][SwayNext]_vars

Abs(n) == IF n < 0 THEN 0 - n ELSE n

\* After update, every node is within its swayAmplitude of where it was
\* placed: on x and z by at most the amplitude, on y by at most half of it.
SwayBounded ==
  lastUpdate.called =>
    \A id \in DOMAIN lastUpdate.meshes :
      LET mesh == lastUpdate.meshes[id]
      IN /\ mesh.position = mesh.originalPosition
         /\ mesh.swayAmplitude >= 0
         /\ Abs(mesh.swayOffset.x) <= mesh.swayAmplitude * 1000
         /\ Abs(mesh.swayOffset.z) <= mesh.swayAmplitude * 1000
         /\ Abs(mesh.swayOffset.y) <= mesh.swayAmplitude * 500

\* No step changes the originalPosition of a node that exists.
OriginalPositionKept ==
  \A id \in DOMAIN meshes :
    /\ id \in DOMAIN meshes'
    /\ meshes'[id].originalPosition = meshes[id].originalPosition

\* C26: the sway stays around the original position. No call of update,
\* applyWind, highlightNode, of the hover or the click handler changes a
\* node's originalPosition, and after every update each node's position is
\* its originalPosition displaced by at most swayAmplitude on x and z and by
\* at most half of swayAmplitude on y.
SwayAroundOriginal == []SwayBounded /\ [][OriginalPositionKept]_vars

\* A node that was highlighted and hovered is displaced on all three axes
\* after the wind rose.
SwayedInFullWind ==
  /\ lastUpdate.called
  /\ lastHighlight.called
  /\ hoveredNode # 0
  /\ nodeTime > 1000
  /\ \E id \in DOMAIN meshes :
       /\ meshes[id].swayAmplitude = 70
       /\ meshes[id] = lastUpdate.meshes[id]
       /\ meshes[id].swayOffset.x # 0
       /\ meshes[id].swayOffset.y # 0
       /\ meshes[id].swayOffset.z # 0

(***************************************************************************)
(* ui/Search.js: the fly-to runs to its end                                *)
(***************************************************************************)
\* requestAnimationFrame delivers the pending animate() of a fly-to.
FlyFrames == \E f \in frames : FlyFrame(f)

\* requestAnimationFrame delivers the pending fadeAnimate() of a beam.
FadeFrames == \E f \in frames : FadeFrame(f)

\* A due timer of showError runs.
SearchTimers == \E t \in timers : SearchTimerFire(t)

\* Time passes once the callbacks of this frame have run.
FlyAdvance == FramesRan /\ Advance(SearchStep, SearchHorizon)

\* The visitor searches early enough for the flight to end within the
\* time that is followed.
FlyNext ==
  \/ \E messages \in SearchLoads :
       AppStarting /\ LoadNodes(messages, [phase |-> 0, amplitude |-> 10])
  \/ \E value \in SearchInputs : TypeSearch(value)
  \/ \E spread \in FlySpreads :
       /\ \A longest \in FlySpreads : now + FlyBase + longest <= SearchHorizon
       /\ HandleSearch(spread)
  \/ FlyFrames
  \/ FadeFrames
  \/ SearchTimers
  \/ FlyAdvance

SpecFly == NodesStart /\ [][FlyNext]_vars

\* Animation frames keep being delivered, due timers run and time passes.
SpecFlyFair ==
  /\ SpecFly
  /\ WF_vars(FlyFrames)
  /\ WF_vars(FadeFrames)
  /\ WF_vars(SearchTimers)
  /\ WF_vars(FlyAdvance)

\* isAnimating is set exactly while an animate() loop is pending, and a
\* pending loop has not yet seen its duration elapse.
FlyGuardMatchesLoop ==
  /\ isAnimating <=> FlyLoops # {}
  /\ \A f \in FlyLoops :
       /\ f.duration >= FlyBase
       /\ f.duration <= FlyBase + 400
       /\ f.since - f.startTime < f.duration

\* The step that ends a loop resets the guard and removes the beam; a found
\* search made while the guard is clear starts a loop, with a beam.
FlyEndsAndRestarts ==
  /\ (FlyLoops # {} /\ FlyLoops' = {}) =>
       /\ \A f \in FlyLoops : now - f.startTime >= f.duration
       /\ ~isAnimating'
       /\ lightBeam' = NoBeam
       /\ SceneObjs("beam")' = {}
  /\ (lastFly' # lastFly /\ ~isAnimating) =>
       /\ isAnimating'
       /\ lightBeam' # NoBeam
       /\ \E f \in FlyLoops' : f.startTime = now /\ f.endTarget = lastFly'.target

\* C27: the fly-to guard is always released. isAnimating is true exactly
\* while an animate() loop of flyToPosition is scheduled; every fly-to that
\* starts ends once its duration of 800 to 1200 ms has elapsed, when frames
\* keep being delivered, and the step that ends it sets isAnimating to
\* false and removes the light beam; a search for an existing node made
\* after that starts a new fly-to.
FlyGuardReleased ==
  /\ []FlyGuardMatchesLoop
  /\ [][FlyEndsAndRestarts]_vars
  /\ (isAnimating ~> (~isAnimating /\ lightBeam = NoBeam))

\* A second fly-to was started after the first one had ended and its beam
\* had been removed and disposed of.
FlyRestartedAfterRelease ==
  /\ lastFly.called
  /\ ~lastFly.wasAnimating
  /\ lastFly.before[1].disposed # {}
  /\ lastFly.before[1].lightBeam = NoBeam
  /\ isAnimating
  /\ \E f \in FlyLoops : f.startTime > 0

(***************************************************************************)
(* ui/Composer.js: the timers of showSuccessAnimation and showError        *)
(***************************************************************************)
\* Timers run in the order of their due times, and of their creation when
\* these are equal.
NextDue(t) ==
  /\ t.due <= now
  /\ \A u \in timers : u.due > t.due \/ (u.due = t.due /\ u.id >= t.id)

\* A timer of the Composer runs:
\*   button.textContent = 'Grown!'
\*   button.textContent = originalText; button.style.background = ''
\*   element.style.borderColor = ''; element.style.animation = ''
ComposerTimerFire(t) ==
  /\ t.kind \in {"grown", "restore", "clearError"}
  /\ NextDue(t)
  /\ timers' = timers \ {t}
  /\ submitButton' = CASE t.kind = "grown" -> [submitButton EXCEPT !.text = "grown"]
                        [] t.kind = "restore" -> [text |-> t.originalText, background |-> ""]
                        [] OTHER -> submitButton
  /\ errorStyle' = IF t.kind = "clearError" THEN errorStyle \ {t.element} ELSE errorStyle
  /\ UNCHANGED <<nameInput, messageTextarea, submits, lastSubmit>>
  /\ UNCHANGED <<hoveredNode, hoverTimeout, nextTimer, hoverLabel, pointer, lastReveal,
                 lastCancel>>
  /\ UNCHANGED <<placeVars, storeVars, nodeVars, searchVars, modalVars, tierVars, hashVars,
                 swayVars, weatherVars, now>>

LabelStep == 500
LabelHorizon == 3500

\* The visitor submits messages while the timers of earlier submissions run.
LabelNext ==
  \/ nameInput = <<>> /\ TypeName(<<66>>)
  \/ messageTextarea = <<>> /\ TypeMessage(<<104, 105, 32>>)
  \/ \E randomText \in RandomTexts :
       Idle /\ HandleSubmit(randomText, FALSE, [phase |-> 0, amplitude |-> 10])
  \/ \E t \in timers : ComposerTimerFire(t)
  \/ Advance(LabelStep, LabelHorizon)

SpecLabel == NodesStart /\ [][LabelNext]_vars

\* The timers of showSuccessAnimation that have not run yet.
SuccessTimers == {t \in timers : t.kind \in {"grown", "restore"}}

\* C28: the submit button label is restored. After successful submissions,
\* once every timer of showSuccessAnimation has run, the submit button
\* shows the label it had before the first submission.
SubmitLabelRestored ==
  (lastSubmit.called /\ SuccessTimers = {}) => submitButton.text = InitialLabel

(***************************************************************************)
(* ui/WeatherUI.js: the auto-weather interval                              *)
(***************************************************************************)
AutoStep == 15000
AutoHorizon == 60000

\* The settings an earlier visit left in the store.
AutoSettings == {[weather |-> "rain", autoWeather |-> FALSE],
                 [weather |-> "fog", autoWeather |-> TRUE]}

\* The weather buttons the visitor clicks.
AutoClicks == {"clear", "snow"}

AutoNext ==
  \/ \E settings \in AutoSettings :
       ~weatherUI.built /\ settingsBlob = NoSettingsText /\ SaveSettings(settings)
  \/ NewWeatherUI
  \/ \E name \in AutoClicks : WeatherButtonClick(name)
  \/ AutoToggleChange
  \/ \E i \in intervals : AutoWeatherTick(i)
  \/ \E f \in weather.transitions : TransitionFrame(f)
  \/ WeatherAdvance(AutoStep, AutoHorizon)

\* The WeatherUI is built from the stored settings, then the visitor clicks
\* weather buttons and flips the toggle while the weather cycles.
SpecAuto == NodesStart /\ [][AutoNext]_vars

\* C29: the auto-weather interval. After the construction of the WeatherUI
\* (with loadSettings) and any clicks on weather buttons and changes of the
\* toggle, an interval is active exactly when the toggle is checked, it is
\* the one autoWeatherInterval names, there is never more than one, and
\* after a click on a weather button none is active and the toggle is
\* unchecked.
AutoIntervalMatchesToggle ==
  /\ Cardinality(intervals) <= 1
  /\ intervals # {} <=> weatherUI.checked
  /\ {i.id : i \in intervals} = {weatherUI.autoWeatherInterval} \ {0}
  /\ lastWeatherEvent.kind = "click" => (intervals = {} /\ ~weatherUI.checked)

\* Auto-cycling was loaded as on, stopped by a click on a weather button
\* and started again with the toggle.
AutoRestartedAfterClick ==
  /\ nextInterval = 3
  /\ Cardinality(intervals) = 1
  /\ weatherUI.checked
  /\ lastWeatherEvent.kind = "change"
  /\ weatherUI.currentWeather \in AutoClicks

(***************************************************************************)
(* scene/Weather.js: transitions that overlap                              *)
(***************************************************************************)
TransitionStep == 400
TransitionHorizon == 2400

\* The weathers asked for: none, two particle systems and the fog.
TransitionWeathers == {"clear", "rain", "fog", "snow"}

TransitionNext ==
  \/ \E name \in TransitionWeathers : SetWeather(name)
  \/ \E f \in weather.transitions : TransitionFrame(f)
  \/ WeatherAdvance(TransitionStep, TransitionHorizon)

\* setWeather is called at any time, also while earlier transitions run.
SpecWeather == NodesStart /\ [][TransitionNext]_vars

\* What shows a weather: its particle system, or the fog plane.
effectOf(name) ==
  IF name \in Particles THEN {name} ELSE IF name = "fog" THEN {"fogPlane"} ELSE {}

====
